---------------------------- MODULE Spec2Model ----------------------------
(***************************************************************************)
(* VitalGuard smart-helmet firmware (the sketch listed in README.md):      *)
(* the cooperative loop(), the sensor reads and conversions, the alert     *)
(* evaluation and the two transmission timers.                             *)
(*                                                                         *)
(* Numbers.  The sketch computes in float; the model keeps every value as  *)
(* an exact scaled integer or an exact fraction, so that each comparison   *)
(* of the sketch is decided exactly:                                       *)
(*   temperatures      hundredths of a degree Celsius                      *)
(*   accelXYZ/gyroXYZ  raw signed 16-bit counts (g * 16384, deg/s * 131),  *)
(*                     so they also stand for ax..gz                       *)
(*   coLevel           ppm * 4095                                          *)
(*   spO2              a fraction [n, d] (percent = n / d)                 *)
(*   heartRate         thousandths of a beat per minute                    *)
(* Time is the millisecond counter behind millis().  It advances between   *)
(* loop iterations (delay(100) and whatever the iteration blocked for);    *)
(* the statements of one iteration read the same millis() value.  The      *)
(* horizons explored are far below 2^32 ms, so unsigned subtraction of     *)
(* two time stamps is plain subtraction here.                              *)
(***************************************************************************)
EXTENDS Integers, Naturals, Sequences, FiniteSets, TLC

VARIABLES
    clock,                    \* value returned by millis()
    pc,                       \* position inside loop()
    currentTime,              \* loop(): unsigned long currentTime = millis()
    currentReadings,          \* VitalSigns currentReadings
    lastSensorRead,
    lastDataTransmission,
    systemStartTime,
    lastHealthCheck,
    alertActive,
    alertStartTime,
    irValue,
    redValue,
    heartStatics,             \* statics of readHeartRateAndSpO2
    lastEmergencyTransmission,\* static of handleEmergencyProtocols
    ledPin,                   \* level last written to LED_STATUS_PIN
    posted,                   \* documents POSTed during this iteration
    setupEnd,                 \* millis() when setup() returned
    sampled,                  \* this iteration ran readAllSensors
    emergencyBefore,          \* emergencyStatus when this iteration began
    txLoop,                   \* what loop()'s transmission timer called
    txProtocol,               \* handleEmergencyProtocols called transmitEmergencyData
    lastEmergencyAttempt,     \* millis() of the last transmitEmergencyData call
    windowStart,              \* start of the current motionless window
    txElapsed,                \* currentTime - lastDataTransmission as compared
    lastFrame,                \* raw inputs of the latest sampling tick
    beatTrace,                \* the IR samples seen so far, as beat intervals
    flagsBefore,              \* coWarning and alertActive when this iteration began
    alertCall,                \* what processAlerts called in this iteration
    outcomes,                 \* how the transmissions of this iteration ended
    twin,                     \* the same device, inputs and clock, WiFi never up
    collector,                \* data_receiver.php: the last request and the table
    observed,                 \* what the latest tick, health check and LED write did
    wrap,                     \* the sampling timer on the 32-bit millisecond counter
    legacy                    \* hardware/firmware/VitalGuard.ino: its globals and statics

vars == <<clock, pc, currentTime, currentReadings, lastSensorRead,
          lastDataTransmission, systemStartTime, lastHealthCheck, alertActive,
          alertStartTime, irValue, redValue, heartStatics,
          lastEmergencyTransmission, ledPin, posted, setupEnd, sampled,
          emergencyBefore, txLoop, txProtocol, lastEmergencyAttempt,
          windowStart, txElapsed, lastFrame, beatTrace, flagsBefore,
          alertCall, outcomes, twin, collector, observed, wrap, legacy>>

\* everything but the collector
firmwareVars ==
    <<clock, pc, currentTime, currentReadings, lastSensorRead,
      lastDataTransmission, systemStartTime, lastHealthCheck, alertActive,
      alertStartTime, irValue, redValue, heartStatics,
      lastEmergencyTransmission, ledPin, posted, setupEnd, sampled,
      emergencyBefore, txLoop, txProtocol, lastEmergencyAttempt,
      windowStart, txElapsed, lastFrame, beatTrace, flagsBefore,
      alertCall, outcomes, twin, observed>>

-----------------------------------------------------------------------------
(* Thresholds and periods of the sketch, in the units given above.         *)

HEART_RATE_MAX == 200000
HEART_RATE_CRITICAL == 220000
SPO2_CRITICAL == 85
BODY_TEMP_MAX == 3900
BODY_TEMP_CRITICAL == 4050
AMBIENT_TEMP_WARNING == 6000
AMBIENT_TEMP_CRITICAL == 8000
CO_WARNING_LEVEL == 50
CO_DANGER_LEVEL == 200
CO_CRITICAL_LEVEL == 400
\* acceleration thresholds in tenths of a g
FALL_THRESHOLD == 25
IMPACT_THRESHOLD == 40
MOTION_THRESHOLD == 1
MOTIONLESS_TIME == 300000

SENSOR_INTERVAL == 1000
TRANSMISSION_INTERVAL == 5000
HEALTH_CHECK_INTERVAL == 30000
EMERGENCY_TRANSMISSION_INTERVAL == 1000

LOOP_DELAY == 100
STARTUP_LED_TIME == 2400
LOW_HEAP == 10000

BODY_TEMP_LOW == 3000
BODY_TEMP_HIGH == 4500
BODY_TEMP_DEFAULT == 3700
AMBIENT_TEMP_LOW == -4000
AMBIENT_TEMP_HIGH == 8500
AMBIENT_TEMP_DEFAULT == 2500
SPO2_DEFAULT == 98
SPO2_FLOOR == 70
SPO2_CEILING == 100
BEAT_THRESHOLD == 100000
SIGNAL_THRESHOLD == 50000
CoScale == 4095

\* what a bus read delivers when fewer bytes arrived than were requested;
\* a successful read delivers the tuple of its raw values
NoData == <<>>

-----------------------------------------------------------------------------
(* Sensor conversions.                                                     *)

\* (tempData * 0.02) - 273.15, in hundredths of a degree
ConvertTemperature(tempData) == tempData * 2 - 27315

\* mutant: the upper limit is not checked
ValidateBodyTemperatureLowOnly(t) ==
    IF t < BODY_TEMP_LOW THEN BODY_TEMP_DEFAULT ELSE t

ValidateBodyTemperature(t) ==
    IF t < BODY_TEMP_LOW \/ t > BODY_TEMP_HIGH THEN BODY_TEMP_DEFAULT ELSE t

ValidateAmbientTemperature(t) ==
    IF t < AMBIENT_TEMP_LOW \/ t > AMBIENT_TEMP_HIGH THEN AMBIENT_TEMP_DEFAULT ELSE t

\* mutant: a register whose read fails puts the default in the field
ReadTemperaturesDefault(cr, bodyRaw, ambientRaw) ==
    [cr EXCEPT !.bodyTemperature =
                   IF bodyRaw = NoData THEN BODY_TEMP_DEFAULT
                   ELSE ValidateBodyTemperature(ConvertTemperature(bodyRaw[1])),
               !.ambientTemperature =
                   IF ambientRaw = NoData THEN AMBIENT_TEMP_DEFAULT
                   ELSE ValidateAmbientTemperature(ConvertTemperature(ambientRaw[1]))]

\* readTemperatures: a register whose read fails leaves the field as it was;
\* both fields are validated afterwards.
ReadTemperatures(cr, bodyRaw, ambientRaw) ==
    LET body == IF bodyRaw = NoData THEN cr.bodyTemperature
                ELSE ConvertTemperature(bodyRaw[1])
        ambient == IF ambientRaw = NoData THEN cr.ambientTemperature
                   ELSE ConvertTemperature(ambientRaw[1])
    IN [cr EXCEPT !.bodyTemperature = ValidateBodyTemperature(body),
                  !.ambientTemperature = ValidateAmbientTemperature(ambient)]

\* mutant: >= in place of >
TotalAccelAtLeast(x, y, z, tenths) ==
    LET lo == ((x * x) % 65536) + ((y * y) % 65536) + ((z * z) % 65536)
        hi == ((x * x) \div 65536) + ((y * y) \div 65536) + ((z * z) \div 65536)
        H == 100 * hi + ((100 * lo) \div 65536)
        T == tenths * tenths * 4096
    IN H >= T

\* sqrt(x^2 + y^2 + z^2) > tenths / 10 for x, y, z in counts of 1/16384 g,
\* that is 100 * (x^2 + y^2 + z^2) > tenths^2 * 2^28, computed in two
\* 16-bit limbs so that no intermediate value leaves 32 bits.
TotalAccelExceeds(x, y, z, tenths) ==
    LET lo == ((x * x) % 65536) + ((y * y) % 65536) + ((z * z) % 65536)
        hi == ((x * x) \div 65536) + ((y * y) \div 65536) + ((z * z) \div 65536)
        H == 100 * hi + ((100 * lo) \div 65536)
        L == (100 * lo) % 65536
        T == tenths * tenths * 4096
    IN H > T \/ (H = T /\ L > 0)

\* readMotionSensors: nothing changes unless all 14 bytes arrived.
ReadMotionSensors(cr, motion) ==
    IF motion = NoData THEN cr
    ELSE [cr EXCEPT !.accelX = motion[1], !.accelY = motion[2],
                    !.accelZ = motion[3], !.gyroX = motion[4],
                    !.gyroY = motion[5], !.gyroZ = motion[6],
                    !.fallDetected = TotalAccelExceeds(motion[1], motion[2],
                                                       motion[3], FALL_THRESHOLD)]

\* readCOSensor: (analogValue * (3.3 / 4095.0) - 0.1) * 100, floored at 0;
\* in units of 1/4095 ppm this is 330 * analogValue - 40950.
\* mutant: the pin is converted on a 5.0 V reference
ConvertCOFiveVolt(analogValue) ==
    LET ppm == 500 * analogValue - 10 * CoScale
    IN IF ppm < 0 THEN 0 ELSE ppm

ConvertCO(analogValue) ==
    LET ppm == 330 * analogValue - 10 * CoScale
    IN IF ppm < 0 THEN 0 ELSE ppm

ReadCOSensor(cr, analogValue) == [cr EXCEPT !.coLevel = ConvertCO(analogValue)]

\* coLevel > level (level in ppm)
COAbove(cr, level) == cr.coLevel > level * CoScale

\* mutant: the lower clamp is missing
SpO2NoFloor(ir, red) ==
    IF ir > SIGNAL_THRESHOLD /\ red > SIGNAL_THRESHOLD
    THEN LET n == 110 * ir - 18 * red
         IN IF n > SPO2_CEILING * ir THEN [n |-> SPO2_CEILING, d |-> 1]
            ELSE [n |-> n, d |-> ir]
    ELSE [n |-> SPO2_DEFAULT, d |-> 1]

\* 110 - 18 * red / ir clamped to [70, 100]; 98 when the signal is weak.
SpO2Of(ir, red) ==
    IF ir > SIGNAL_THRESHOLD /\ red > SIGNAL_THRESHOLD
    THEN LET n == 110 * ir - 18 * red
         IN IF n > SPO2_CEILING * ir THEN [n |-> SPO2_CEILING, d |-> 1]
            ELSE IF n < SPO2_FLOOR * ir THEN [n |-> SPO2_FLOOR, d |-> 1]
            ELSE [n |-> n, d |-> ir]
    ELSE [n |-> SPO2_DEFAULT, d |-> 1]

\* spO2 < percent
SpO2Below(cr, percent) == cr.spO2.n < percent * cr.spO2.d

\* bpm = 60000.0 / interval lies in [40, 200]
BpmInRange(interval) == 60000 >= 40 * interval /\ 60000 <= 200 * interval

\* mutant: the mean is published after three beats
BeatDetectorThree(hs, heartRate, ir, t) ==
    IF ir > BEAT_THRESHOLD /\ hs.lastIrValue <= BEAT_THRESHOLD
    THEN LET interval == t - hs.lastBeatTime
             valid == interval > 300 /\ interval < 3000 /\ BpmInRange(interval)
             sum == hs.heartRateSum + (60000000 \div interval)
             count == hs.beatCount + 1
         IN IF valid /\ count >= 3
            THEN [hs |-> [lastIrValue |-> ir, lastBeatTime |-> t,
                          beatCount |-> 0, heartRateSum |-> 0],
                  heartRate |-> sum \div count]
            ELSE IF valid
            THEN [hs |-> [lastIrValue |-> ir, lastBeatTime |-> t,
                          beatCount |-> count, heartRateSum |-> sum],
                  heartRate |-> heartRate]
            ELSE [hs |-> [hs EXCEPT !.lastIrValue = ir, !.lastBeatTime = t],
                  heartRate |-> heartRate]
    ELSE [hs |-> [hs EXCEPT !.lastIrValue = ir], heartRate |-> heartRate]

\* mutant: an interval of exactly 300 ms is accepted
BeatDetectorFrom300(hs, heartRate, ir, t) ==
    IF ir > BEAT_THRESHOLD /\ hs.lastIrValue <= BEAT_THRESHOLD
    THEN LET interval == t - hs.lastBeatTime
             valid == interval >= 300 /\ interval < 3000 /\ BpmInRange(interval)
             sum == hs.heartRateSum + (60000000 \div interval)
             count == hs.beatCount + 1
         IN IF valid /\ count >= 4
            THEN [hs |-> [lastIrValue |-> ir, lastBeatTime |-> t,
                          beatCount |-> 0, heartRateSum |-> 0],
                  heartRate |-> sum \div count]
            ELSE IF valid
            THEN [hs |-> [lastIrValue |-> ir, lastBeatTime |-> t,
                          beatCount |-> count, heartRateSum |-> sum],
                  heartRate |-> heartRate]
            ELSE [hs |-> [hs EXCEPT !.lastIrValue = ir, !.lastBeatTime = t],
                  heartRate |-> heartRate]
    ELSE [hs |-> [hs EXCEPT !.lastIrValue = ir], heartRate |-> heartRate]

\* The beat detector: a rising edge through BEAT_THRESHOLD whose distance to
\* the previous edge is a valid interval adds one bpm value; the fourth one
\* publishes the mean.  Returns the statics and the heart rate.
BeatDetector(hs, heartRate, ir, t) ==
    IF ir > BEAT_THRESHOLD /\ hs.lastIrValue <= BEAT_THRESHOLD
    THEN LET interval == t - hs.lastBeatTime
             valid == interval > 300 /\ interval < 3000 /\ BpmInRange(interval)
             sum == hs.heartRateSum + (60000000 \div interval)
             count == hs.beatCount + 1
         IN IF valid /\ count >= 4
            THEN [hs |-> [lastIrValue |-> ir, lastBeatTime |-> t,
                          beatCount |-> 0, heartRateSum |-> 0],
                  heartRate |-> sum \div count]
            ELSE IF valid
            THEN [hs |-> [lastIrValue |-> ir, lastBeatTime |-> t,
                          beatCount |-> count, heartRateSum |-> sum],
                  heartRate |-> heartRate]
            ELSE [hs |-> [hs EXCEPT !.lastIrValue = ir, !.lastBeatTime = t],
                  heartRate |-> heartRate]
    ELSE [hs |-> [hs EXCEPT !.lastIrValue = ir], heartRate |-> heartRate]

\* readHeartRateAndSpO2: a failed FIFO read leaves irValue and redValue as
\* they were; the beat detector and the SpO2 formula run on them either way.
ReadHeartRateAndSpO2(cr, hs, ir0, red0, optical, t) ==
    LET ir == IF optical = NoData THEN ir0 ELSE optical[1]
        red == IF optical = NoData THEN red0 ELSE optical[2]
        beat == BeatDetector(hs, cr.heartRate, ir, t)
    IN [cr |-> [cr EXCEPT !.heartRate = beat.heartRate, !.spO2 = SpO2Of(ir, red)],
        hs |-> beat.hs, ir |-> ir, red |-> red]

-----------------------------------------------------------------------------
(* processSensorAlerts, statement by statement.                            *)

\* mutant: >= in place of >
HeatStressAtLeast(cr) ==
    \/ cr.bodyTemperature >= BODY_TEMP_MAX
    \/ cr.heartRate >= HEART_RATE_MAX
    \/ cr.ambientTemperature >= AMBIENT_TEMP_WARNING

HeatStress(cr) ==
    \/ cr.bodyTemperature > BODY_TEMP_MAX
    \/ cr.heartRate > HEART_RATE_MAX
    \/ cr.ambientTemperature > AMBIENT_TEMP_WARNING

\* mutant: the ambient temperature is not looked at
CriticalVitalsNoAmbient(cr) ==
    \/ cr.bodyTemperature > BODY_TEMP_CRITICAL
    \/ cr.heartRate > HEART_RATE_CRITICAL
    \/ SpO2Below(cr, SPO2_CRITICAL)

CriticalVitals(cr) ==
    \/ cr.bodyTemperature > BODY_TEMP_CRITICAL
    \/ cr.heartRate > HEART_RATE_CRITICAL
    \/ SpO2Below(cr, SPO2_CRITICAL)
    \/ cr.ambientTemperature > AMBIENT_TEMP_CRITICAL

\* mutant: the critical branch raises the emergency only
COLadderEmergencyOnly(cr) ==
    IF COAbove(cr, CO_CRITICAL_LEVEL) THEN [cr EXCEPT !.emergencyStatus = TRUE]
    ELSE IF COAbove(cr, CO_DANGER_LEVEL) THEN [cr EXCEPT !.coWarning = TRUE]
    ELSE IF COAbove(cr, CO_WARNING_LEVEL) THEN [cr EXCEPT !.coWarning = TRUE]
    ELSE [cr EXCEPT !.coWarning = FALSE]

\* mutant: the warning is never withdrawn
COLadderSticky(cr) ==
    IF COAbove(cr, CO_CRITICAL_LEVEL)
    THEN [cr EXCEPT !.coWarning = TRUE, !.emergencyStatus = TRUE]
    ELSE IF COAbove(cr, CO_DANGER_LEVEL) THEN [cr EXCEPT !.coWarning = TRUE]
    ELSE IF COAbove(cr, CO_WARNING_LEVEL) THEN [cr EXCEPT !.coWarning = TRUE]
    ELSE cr

\* the CO ladder: the critical branch also sets emergencyStatus
COLadder(cr) ==
    IF COAbove(cr, CO_CRITICAL_LEVEL)
    THEN [cr EXCEPT !.coWarning = TRUE, !.emergencyStatus = TRUE]
    ELSE IF COAbove(cr, CO_DANGER_LEVEL) THEN [cr EXCEPT !.coWarning = TRUE]
    ELSE IF COAbove(cr, CO_WARNING_LEVEL) THEN [cr EXCEPT !.coWarning = TRUE]
    ELSE [cr EXCEPT !.coWarning = FALSE]

\* mutant: the impact is judged on the fall threshold
ImpactDetectedAtFallThreshold(cr) ==
    TotalAccelExceeds(cr.accelX, cr.accelY, cr.accelZ, FALL_THRESHOLD)

ImpactDetected(cr) ==
    TotalAccelExceeds(cr.accelX, cr.accelY, cr.accelZ, IMPACT_THRESHOLD)

Moving(cr) ==
    TotalAccelExceeds(cr.accelX, cr.accelY, cr.accelZ, MOTION_THRESHOLD)

\* mutant: motion clears the alert but does not restart the window
MotionlessTimerNoRestart(cr, t) ==
    IF Moving(cr)
    THEN [cr EXCEPT !.motionlessAlert = FALSE]
    ELSE IF t - cr.lastMotionTime > MOTIONLESS_TIME
    THEN [cr EXCEPT !.motionlessAlert = TRUE, !.emergencyStatus = TRUE]
    ELSE cr

\* mutant: the elapsed time is taken in seconds, the limit in milliseconds
MotionlessTimerSeconds(cr, t) ==
    IF Moving(cr)
    THEN [cr EXCEPT !.lastMotionTime = t, !.motionlessAlert = FALSE]
    ELSE IF (t - cr.lastMotionTime) \div 1000 > MOTIONLESS_TIME
    THEN [cr EXCEPT !.motionlessAlert = TRUE, !.emergencyStatus = TRUE]
    ELSE cr

\* the motionless timer, t = millis()
MotionlessTimer(cr, t) ==
    IF Moving(cr)
    THEN [cr EXCEPT !.lastMotionTime = t, !.motionlessAlert = FALSE]
    ELSE IF t - cr.lastMotionTime > MOTIONLESS_TIME
    THEN [cr EXCEPT !.motionlessAlert = TRUE, !.emergencyStatus = TRUE]
    ELSE cr

\* mutant: a fall does not raise the emergency
EmergencyDeterminationNoFall(cr) ==
    IF \/ cr.criticalVitals
       \/ cr.impactDetected
       \/ cr.motionlessAlert
       \/ COAbove(cr, CO_CRITICAL_LEVEL)
    THEN [cr EXCEPT !.emergencyStatus = TRUE]
    ELSE cr

\* "Set emergency status based on critical conditions": there is no else
EmergencyDetermination(cr) ==
    IF \/ cr.criticalVitals
       \/ cr.fallDetected
       \/ cr.impactDetected
       \/ cr.motionlessAlert
       \/ COAbove(cr, CO_CRITICAL_LEVEL)
    THEN [cr EXCEPT !.emergencyStatus = TRUE]
    ELSE cr

ProcessSensorAlerts(cr, t) ==
    LET c1 == [cr EXCEPT !.heatStress = HeatStress(cr),
                         !.criticalVitals = CriticalVitals(cr)]
        c2 == COLadder(c1)
        c3 == [c2 EXCEPT !.smokeDetected =
                             (c2.ambientTemperature > AMBIENT_TEMP_WARNING),
                         !.impactDetected = ImpactDetected(c2)]
        c4 == MotionlessTimer(c3, t)
    IN EmergencyDetermination(c4)

\* mutant: the alerts are evaluated on the converted temperatures and the
\* range validation runs afterwards
ReadAllSensorsAlertsFirst(cr, hs, ir0, red0, frame, t) ==
    LET optical == ReadHeartRateAndSpO2([cr EXCEPT !.timestamp = t], hs, ir0,
                                        red0, frame.optical, t)
        c1 == [optical.cr EXCEPT
                  !.bodyTemperature =
                      IF frame.body = NoData THEN @
                      ELSE ConvertTemperature(frame.body[1]),
                  !.ambientTemperature =
                      IF frame.ambient = NoData THEN @
                      ELSE ConvertTemperature(frame.ambient[1])]
        c2 == ReadMotionSensors(c1, frame.motion)
        c3 == ReadCOSensor(c2, frame.adc)
        c4 == ProcessSensorAlerts(c3, t)
    IN [cr |-> [c4 EXCEPT
                   !.bodyTemperature = ValidateBodyTemperature(@),
                   !.ambientTemperature = ValidateAmbientTemperature(@)],
        hs |-> optical.hs, ir |-> optical.ir, red |-> optical.red]

\* readAllSensors on one frame of raw inputs, t = millis()
ReadAllSensors(cr, hs, ir0, red0, frame, t) ==
    LET optical == ReadHeartRateAndSpO2([cr EXCEPT !.timestamp = t], hs, ir0,
                                        red0, frame.optical, t)
        c1 == ReadTemperatures(optical.cr, frame.body, frame.ambient)
        c2 == ReadMotionSensors(c1, frame.motion)
        c3 == ReadCOSensor(c2, frame.adc)
    IN [cr |-> ProcessSensorAlerts(c3, t), hs |-> optical.hs,
        ir |-> optical.ir, red |-> optical.red]

-----------------------------------------------------------------------------
(* The wire documents.                                                     *)

Bit(b) == IF b THEN 1 ELSE 0

\* getCurrentDateTime: "<days>d <hours>h <minutes>m <seconds>s"
GetCurrentDateTime(t) ==
    LET seconds == t \div 1000
        minutes == seconds \div 60
        hours == minutes \div 60
    IN <<hours \div 24, hours % 24, minutes % 60, seconds % 60>>

\* mutant: alert_active is worked out from the flags of the record
NormalDocumentFreshAlert(cr, active, t, wifi, heap) ==
    [device_id |-> "VitalGuard_001", api_key |-> "vitalguard_api_2024",
     timestamp |-> cr.timestamp, date_time |-> GetCurrentDateTime(t),
     heart_rate |-> cr.heartRate, spo2 |-> cr.spO2,
     body_temperature |-> cr.bodyTemperature,
     ambient_temperature |-> cr.ambientTemperature,
     co_level |-> cr.coLevel, smoke_detected |-> Bit(cr.smokeDetected),
     accel_x |-> cr.accelX, accel_y |-> cr.accelY, accel_z |-> cr.accelZ,
     gyro_x |-> cr.gyroX, gyro_y |-> cr.gyroY, gyro_z |-> cr.gyroZ,
     fall_detected |-> Bit(cr.fallDetected),
     impact_detected |-> Bit(cr.impactDetected),
     motionless_alert |-> Bit(cr.motionlessAlert),
     heat_stress |-> Bit(cr.heatStress), co_warning |-> Bit(cr.coWarning),
     critical_vitals |-> Bit(cr.criticalVitals),
     emergency_status |-> Bit(cr.emergencyStatus),
     alert_active |-> Bit(cr.fallDetected \/ cr.heatStress \/ cr.coWarning),
     system_error |-> Bit(cr.systemError), sensor_error |-> Bit(cr.sensorError),
     session_time |-> cr.sessionTime, data_packet_count |-> cr.dataPacketCount,
     wifi_connected |-> Bit(wifi), free_heap |-> heap]

\* the document transmitDataToServer builds
NormalDocument(cr, active, t, wifi, heap) ==
    [device_id |-> "VitalGuard_001", api_key |-> "vitalguard_api_2024",
     timestamp |-> cr.timestamp, date_time |-> GetCurrentDateTime(t),
     heart_rate |-> cr.heartRate, spo2 |-> cr.spO2,
     body_temperature |-> cr.bodyTemperature,
     ambient_temperature |-> cr.ambientTemperature,
     co_level |-> cr.coLevel, smoke_detected |-> Bit(cr.smokeDetected),
     accel_x |-> cr.accelX, accel_y |-> cr.accelY, accel_z |-> cr.accelZ,
     gyro_x |-> cr.gyroX, gyro_y |-> cr.gyroY, gyro_z |-> cr.gyroZ,
     fall_detected |-> Bit(cr.fallDetected),
     impact_detected |-> Bit(cr.impactDetected),
     motionless_alert |-> Bit(cr.motionlessAlert),
     heat_stress |-> Bit(cr.heatStress), co_warning |-> Bit(cr.coWarning),
     critical_vitals |-> Bit(cr.criticalVitals),
     emergency_status |-> Bit(cr.emergencyStatus),
     alert_active |-> Bit(active),
     system_error |-> Bit(cr.systemError), sensor_error |-> Bit(cr.sensorError),
     session_time |-> cr.sessionTime, data_packet_count |-> cr.dataPacketCount,
     wifi_connected |-> Bit(wifi), free_heap |-> heap]

\* mutant: the emergency document carries emergency_status as well
EmergencyDocumentWithStatus(cr) ==
    [emergency |-> TRUE, emergency_status |-> Bit(cr.emergencyStatus),
     device_id |-> "VitalGuard_001", api_key |-> "vitalguard_api_2024",
     timestamp |-> cr.timestamp, session_time |-> cr.sessionTime,
     heart_rate |-> cr.heartRate, spo2 |-> cr.spO2,
     body_temperature |-> cr.bodyTemperature,
     ambient_temperature |-> cr.ambientTemperature,
     co_level |-> cr.coLevel,
     fall_detected |-> Bit(cr.fallDetected),
     impact_detected |-> Bit(cr.impactDetected),
     motionless_alert |-> Bit(cr.motionlessAlert),
     critical_vitals |-> Bit(cr.criticalVitals),
     heat_stress |-> Bit(cr.heatStress), co_warning |-> Bit(cr.coWarning),
     system_error |-> Bit(cr.systemError), sensor_error |-> Bit(cr.sensorError),
     accel_x |-> cr.accelX, accel_y |-> cr.accelY, accel_z |-> cr.accelZ]

\* the document transmitEmergencyData builds
EmergencyDocument(cr) ==
    [emergency |-> TRUE,
     device_id |-> "VitalGuard_001", api_key |-> "vitalguard_api_2024",
     timestamp |-> cr.timestamp, session_time |-> cr.sessionTime,
     heart_rate |-> cr.heartRate, spo2 |-> cr.spO2,
     body_temperature |-> cr.bodyTemperature,
     ambient_temperature |-> cr.ambientTemperature,
     co_level |-> cr.coLevel,
     fall_detected |-> Bit(cr.fallDetected),
     impact_detected |-> Bit(cr.impactDetected),
     motionless_alert |-> Bit(cr.motionlessAlert),
     critical_vitals |-> Bit(cr.criticalVitals),
     heat_stress |-> Bit(cr.heatStress), co_warning |-> Bit(cr.coWarning),
     system_error |-> Bit(cr.systemError), sensor_error |-> Bit(cr.sensorError),
     accel_x |-> cr.accelX, accel_y |-> cr.accelY, accel_z |-> cr.accelZ]

\* mutant: the document is POSTed a second time
TransmitDataToServerTwice(log, cr, active, t, wifi, heap) ==
    IF wifi
    THEN Append(Append(log, NormalDocument(cr, active, t, wifi, heap)),
                NormalDocument(cr, active, t, wifi, heap))
    ELSE log

\* transmitDataToServer: nothing is sent unless WiFi is connected
TransmitDataToServer(log, cr, active, t, wifi, heap) ==
    IF wifi THEN Append(log, NormalDocument(cr, active, t, wifi, heap)) ELSE log

\* transmitEmergencyData: nothing is sent unless WiFi is connected
TransmitEmergencyData(log, cr, wifi) ==
    IF wifi THEN Append(log, EmergencyDocument(cr)) ELSE log

\* how one call of a transmit function ends: skipped without WiFi, else
\* sent or failed by the sign of httpResponseCode
Outcome(wifi, ok) == IF ~wifi THEN "skipped" ELSE IF ok THEN "sent" ELSE "failed"

\* mutant: a delivered record is counted in the snapshot
AfterTransmissionCounted(cr, wifi, ok) ==
    IF wifi /\ ok THEN [cr EXCEPT !.dataPacketCount = cr.dataPacketCount + 1]
    ELSE cr

\* what a transmit function leaves of currentReadings: it only reads the
\* fields, prints, and ends the HTTP session, whatever the outcome
AfterTransmission(cr, wifi, ok) == cr

\* mutant: the period does not follow emergencyStatus
TransmissionIntervalFixed(cr) == TRANSMISSION_INTERVAL

\* the period loop() compares the transmission timer with
TransmissionInterval(cr) ==
    IF cr.emergencyStatus THEN EMERGENCY_TRANSMISSION_INTERVAL
    ELSE TRANSMISSION_INTERVAL

-----------------------------------------------------------------------------
(* Inputs.                                                                 *)

MaxSeconds == 7
LongMaxSeconds == 312
SensorsMaxSeconds == 2

BeatMaxSeconds == 2
WrapMaxSeconds == 6
LegacyMaxSeconds == 10
CollectorMaxRows == 3
AlertsMaxSeconds == 3

SetupDurations == {200, 10200}
\* the time one loop iteration takes when the sampling timer is driven alone
WrapSteps == {100, 400, 1000}
\* the counter 2500 ms before it wraps, the last tick 400 ms ago
WrapStart ==
    [now |-> <<65535, 63036>>, lastSensorRead |-> <<65535, 62636>>,
     since |-> 400, run |-> 0, ticked |-> FALSE, elapsed |-> 0, gap |-> 1000,
     wrapped |-> FALSE]
\* the time between two calls of readHeartRateAndSpO2 when it is driven alone
BeatSteps == {100, 200}
\* an IR sample above and one below the beat threshold
BeatOpticals == {<<120000, 72000>>, <<90000, 54000>>}
SensorsSteps == {LOOP_DELAY + 900}
LoopSteps == {LOOP_DELAY + 400, LOOP_DELAY + 900}
\* the time one iteration of the legacy loop takes
LegacySteps == {LOOP_DELAY + 400}
LongSteps == {LOOP_DELAY + 9900}
FreeHeaps == {45280, 9000}

Rest == <<0, 0, 16384, 0, 0, 0>>
Still == <<164, 164, 164, 0, 0, 0>>
Fall == <<32767, 32767, 0, 131, 0, 0>>

\* no sampling tick yet
NoFrame ==
    [optical |-> NoData, body |-> NoData, ambient |-> NoData,
     motion |-> NoData, adc |-> 0]

\* a bus read of the tick delivered fewer bytes than were requested
ReadFailed(frame) ==
    NoData \in {frame.optical, frame.body, frame.ambient, frame.motion}

Nominal ==
    [optical |-> <<90000, 54000>>, body |-> <<15508>>, ambient |-> <<14908>>,
     motion |-> Rest, adc |-> 500]

Frames ==
    { Nominal,
      [Nominal EXCEPT !.motion = Fall],
      [Nominal EXCEPT !.body = <<15708>>],
      [Nominal EXCEPT !.body = <<15608>>, !.adc = 1000],
      [Nominal EXCEPT !.optical = NoData, !.body = NoData,
                      !.ambient = NoData, !.motion = NoData] }

MotionFrames ==
    { Nominal,
      [Nominal EXCEPT !.motion = Still],
      [Nominal EXCEPT !.motion = NoData] }

\* raw values on both sides of every comparison of the conversions
BodyRaws == {0, 15157, 15158, 15508, 15608, 15708, 15907, 15908, 65535}
AmbientRaws == {0, 11657, 11658, 14908, 16657, 16658, 17658, 17907, 17908, 65535}
MotionRaws ==
    { Rest, Still, Fall, <<0, 0, 0, 0, 0, 0>>,
      <<0, 805, 1427, 0, 0, 0>>, <<1, 805, -1427, 0, 0, 0>>,
      <<0, 24576, -32768, 0, 0, 0>>, <<1, 24576, -32768, 0, 0, 0>>,
      <<0, 28249, 29660, 0, 0, 0>>,
      <<-32768, -32768, -32768, -32768, 32767, 0>>,
      <<32767, 32767, 32767, 0, 0, 0>> }
AdcValues == {0, 124, 125, 500, 744, 745, 2605, 2606, 4095}
OpticalRaws ==
    { <<0, 0>>, <<50000, 60000>>, <<60000, 50000>>, <<90000, 54000>>,
      <<90000, 125000>>, <<90000, 125001>>, <<120000, 72000>>,
      <<50001, 262143>>, <<262143, 50001>>, <<262143, 262143>> }

\* snapshot values handed to processSensorAlerts when it is driven alone:
\* one field at a time on both sides of each of its thresholds
NominalFeed ==
    [heartRate |-> 90000, spO2 |-> [n |-> 98, d |-> 1],
     bodyTemperature |-> 3700, ambientTemperature |-> 2500,
     coLevel |-> 30 * CoScale]

Feeds ==
    {[NominalFeed EXCEPT !.heartRate = h] :
         h \in {0, 200000, 200001, 220000, 220001}}
      \cup {[NominalFeed EXCEPT !.spO2 = o] :
                o \in {[n |-> 85, d |-> 1], [n |-> 8499, d |-> 100],
                       [n |-> 70, d |-> 1], [n |-> 100, d |-> 1]}}
      \cup {[NominalFeed EXCEPT !.bodyTemperature = b] :
                b \in {3000, 3900, 3901, 4050, 4051, 4100, 4500}}
      \cup {[NominalFeed EXCEPT !.ambientTemperature = a] :
                a \in {-4000, 6000, 6001, 8000, 8001, 8500}}
      \cup {[NominalFeed EXCEPT !.coLevel = c] :
                c \in {0, 50 * CoScale, 50 * CoScale + 1, 200 * CoScale,
                       200 * CoScale + 1, 400 * CoScale, 400 * CoScale + 1,
                       450 * CoScale}}

WideFrames ==
    {[Nominal EXCEPT !.body = <<r>>] : r \in BodyRaws}
      \cup {[Nominal EXCEPT !.ambient = <<r>>] : r \in AmbientRaws}
      \cup {[Nominal EXCEPT !.motion = m] : m \in MotionRaws}
      \cup {[Nominal EXCEPT !.adc = a] : a \in AdcValues}
      \cup {[Nominal EXCEPT !.optical = NoData], [Nominal EXCEPT !.body = NoData],
            [Nominal EXCEPT !.ambient = NoData], [Nominal EXCEPT !.motion = NoData]}
      \cup {[Nominal EXCEPT !.optical = o] : o \in OpticalRaws}
      \cup { [Nominal EXCEPT !.optical = <<50001, 262143>>, !.adc = 0],
             [Nominal EXCEPT !.body = NoData], [Nominal EXCEPT !.ambient = NoData],
             [Nominal EXCEPT !.motion = NoData],
             [Nominal EXCEPT !.optical = NoData] }

-----------------------------------------------------------------------------
(* unsigned long on the ESP32 is 32 bits wide.  A value is kept as two     *)
(* 16-bit limbs <<hi, lo>>, and sums and differences are taken modulo 2^32 *)
(* limb by limb.                                                           *)

Limb == 65536

\* a + n modulo 2^32, for 0 <= n < 65536
AddU32(a, n) ==
    LET lo == a[2] + n
    IN <<(a[1] + (lo \div Limb)) % Limb, lo % Limb>>

\* a - b modulo 2^32
SubU32(a, b) ==
    LET lo == a[2] - b[2]
        borrow == IF lo < 0 THEN 1 ELSE 0
    IN <<(a[1] - b[1] - borrow + Limb) % Limb, (lo + Limb) % Limb>>

\* a >= n, for 0 <= n < 65536
AtLeastU32(a, n) == a[1] > 0 \/ a[2] >= n

\* a <= b
LessEqU32(a, b) == a[1] < b[1] \/ (a[1] = b[1] /\ a[2] <= b[2])

\* mutant: now >= lastSensorRead + SENSOR_INTERVAL
SensorTimerExpiredAbsolute(now, last) ==
    LessEqU32(AddU32(last, SENSOR_INTERVAL), now)

\* currentTime - lastSensorRead >= SENSOR_INTERVAL on unsigned long
SensorTimerExpired(now, last) == AtLeastU32(SubU32(now, last), SENSOR_INTERVAL)

-----------------------------------------------------------------------------
(* data_receiver.php.  A request body either fails json_decode or is a     *)
(* JSON value: t is its type and, for an object, o maps the keys it has to *)
(* leaf values [t, v].                                                     *)

DeviceID == "VitalGuard_001"
ApiKey == "vitalguard_api_2024"

JString(s) == [t |-> "string", v |-> s]
JNumber(s) == [t |-> "number", v |-> s]
JNull == [t |-> "null", v |-> "null"]

JsonObject(fields) == [parses |-> TRUE, t |-> "object", o |-> fields]
JsonScalar(leaf) == [parses |-> TRUE, t |-> leaf.t, o |-> [scalar |-> leaf]]
NotJson == [parses |-> FALSE, t |-> "none", o |-> [raw |-> JString("{device_id")]]

NoRequest == [parses |-> FALSE, t |-> "none", o |-> [raw |-> JString("")]]

CollectorRequests ==
    { NotJson,
      JsonScalar(JNull),
      JsonScalar(JString(ApiKey)),
      JsonObject([heart_rate |-> JNumber("72")]),
      JsonObject([device_id |-> JString(DeviceID)]),
      JsonObject([api_key |-> JString(ApiKey)]),
      JsonObject([device_id |-> JString(DeviceID), api_key |-> JNull]),
      JsonObject([device_id |-> JNull, api_key |-> JString(ApiKey)]),
      JsonObject([device_id |-> JString(DeviceID),
                  api_key |-> JString("vitalguard_api_2025")]),
      JsonObject([device_id |-> JString(DeviceID),
                  api_key |-> JString("VITALGUARD_API_2024")]),
      JsonObject([device_id |-> JString(DeviceID), api_key |-> JNumber("2024")]),
      JsonObject([device_id |-> JString(DeviceID), api_key |-> JString(ApiKey)]),
      JsonObject([device_id |-> JString("VitalGuard_002"),
                  api_key |-> JString(ApiKey), emergency |-> JString("true")]) }

\* isset($data[key]): the key exists and its value is not null
IsSet(request, key) ==
    /\ request.t = "object"
    /\ key \in DOMAIN request.o
    /\ request.o[key].t # "null"

\* mutant: the API key is not compared
DataReceiverNoKeyCheck(request, rows, dbOk) ==
    IF ~request.parses
    THEN [code |-> 400, rows |-> rows, inserted |-> FALSE, ended |-> "exit"]
    ELSE IF ~IsSet(request, "device_id") \/ ~IsSet(request, "api_key")
    THEN [code |-> 400, rows |-> rows, inserted |-> FALSE, ended |-> "exit"]
    ELSE IF dbOk
    THEN [code |-> 200, rows |-> Append(rows, request.o.device_id.v),
          inserted |-> TRUE, ended |-> "end"]
    ELSE [code |-> 500, rows |-> rows, inserted |-> FALSE, ended |-> "end"]

\* The script on one request: the response code, the table afterwards,
\* whether the INSERT was executed, and how the script ended.  dbOk: the
\* connection and the statement raised no PDOException.
DataReceiver(request, rows, dbOk) ==
    IF ~request.parses
    THEN [code |-> 400, rows |-> rows, inserted |-> FALSE, ended |-> "exit"]
    ELSE IF ~IsSet(request, "device_id") \/ ~IsSet(request, "api_key")
    THEN [code |-> 400, rows |-> rows, inserted |-> FALSE, ended |-> "exit"]
    ELSE IF ~(request.o.api_key.t = "string" /\ request.o.api_key.v = ApiKey)
    THEN [code |-> 401, rows |-> rows, inserted |-> FALSE, ended |-> "exit"]
    ELSE IF dbOk
    THEN [code |-> 200, rows |-> Append(rows, request.o.device_id.v),
          inserted |-> TRUE, ended |-> "end"]
    ELSE [code |-> 500, rows |-> rows, inserted |-> FALSE, ended |-> "end"]

-----------------------------------------------------------------------------
(* The IR samples as a heart-rate monitor sees them: rising edges through  *)
(* 100000, the intervals between them, and which of those are valid        *)
(* (longer than 300 ms, shorter than 3000 ms, 40 to 200 beats a minute).   *)
(*   run     bpm values of the latest edges, as long as every one of them  *)
(*           had a valid interval (at most the latest four)                *)
(*   valid   bpm values of the valid intervals since heartRate was last    *)
(*           due, whatever lay between them                                *)
(*   before  heartRate before the latest sample was taken                  *)

NoBeats ==
    [ir |-> 0, edgeTime |-> 0, before |-> 0, run |-> <<>>, valid |-> <<>>,
     edge |-> FALSE, ok |-> FALSE]

LastFour(seq) == IF Len(seq) > 4 THEN SubSeq(seq, Len(seq) - 3, Len(seq)) ELSE seq

BeatTraceAfter(tr, heartRate0, ir, t) ==
    LET edge == ir > 100000 /\ tr.ir <= 100000
        interval == t - tr.edgeTime
        ok == /\ edge
              /\ interval > 300
              /\ interval < 3000
              /\ 40 * interval <= 60000
              /\ 200 * interval >= 60000
        bpm == 60000000 \div interval
    IN [ir |-> ir,
        edgeTime |-> IF edge THEN t ELSE tr.edgeTime,
        before |-> heartRate0,
        run |-> IF ok THEN LastFour(Append(tr.run, bpm))
                ELSE IF edge THEN <<>> ELSE tr.run,
        valid |-> LET kept == IF Len(tr.valid) = 4 THEN <<>> ELSE tr.valid
                  IN IF ok THEN Append(kept, bpm) ELSE kept,
        edge |-> edge, ok |-> ok]

MeanOfFour(seq) == (seq[1] + seq[2] + seq[3] + seq[4]) \div 4

-----------------------------------------------------------------------------
(* hardware/firmware/VitalGuard.ino, the legacy firmware.  Its read        *)
(* functions are those of the current sketch; its snapshot has no          *)
(* emergency conditions and its loop has an emergency button.              *)

BATTERY_LOW_THRESHOLD == 20

\* setup() ends with playStartupTone, four tones each followed by
\* delay(duration + 50): loop() first runs no earlier than this
LegacySetupTime == 250 + 250 + 250 + 450

\* batteryLevel < BATTERY_LOW_THRESHOLD, where batteryLevel is
\* ((batteryRaw / 4095.0) * 3.3 * 2 - 3.0) / 1.2 * 100 clamped to 0..100:
\* in units of 1/4095 mV, 6600 * raw - 3000 * 4095 < 12 * 20 * 4095
BatteryLow(batteryRaw) ==
    6600 * batteryRaw - 3000 * 4095 < 12 * BATTERY_LOW_THRESHOLD * 4095

\* the legacy processSensorAlerts: two flags, no emergency
LegacyProcessSensorAlerts(cr) ==
    [cr EXCEPT !.heatStress = (cr.bodyTemperature > BODY_TEMP_MAX
                               \/ cr.heartRate > HEART_RATE_MAX),
               !.coWarning = COAbove(cr, CO_WARNING_LEVEL)]

\* the legacy readAllSensors on one frame and the battery pin, t = millis()
LegacyReadAllSensors(cr, hs, ir0, red0, frame, batteryRaw, t) ==
    LET optical == ReadHeartRateAndSpO2([cr EXCEPT !.timestamp = t], hs, ir0,
                                        red0, frame.optical, t)
        c1 == ReadTemperatures(optical.cr, frame.body, frame.ambient)
        c2 == ReadMotionSensors(c1, frame.motion)
        c3 == ReadCOSensor(c2, frame.adc)
        c4 == [c3 EXCEPT !.batteryLow = BatteryLow(batteryRaw)]
    IN [cr |-> LegacyProcessSensorAlerts(c4), hs |-> optical.hs,
        ir |-> optical.ir, red |-> optical.red]

\* the legacy processAlerts with activateAlert (which waits 100 ms),
\* updateAlert and deactivateAlert; t = millis() on entry.  Returns the
\* alert state, the two pins and millis() on return.
LegacyProcessAlerts(cr, active, start, led, buzzer, t) ==
    LET status == \/ cr.emergencyStatus
                  \/ cr.fallDetected
                  \/ cr.heatStress
                  \/ cr.coWarning
                  \/ cr.batteryLow
        activated == status /\ ~active
        nowActive == status
        start1 == IF activated THEN t ELSE start
        t1 == IF activated THEN t + 100 ELSE t
    IN IF nowActive
       THEN [active |-> TRUE, start |-> start1, t |-> t1,
             led |-> ((t1 - start1) % 500 < 250),
             buzzer |-> IF cr.emergencyStatus \/ cr.fallDetected
                        THEN (t1 - start1) % 2000 < 200
                        ELSE IF activated THEN FALSE ELSE buzzer]
       ELSE [active |-> FALSE, start |-> start, t |-> t,
             led |-> IF active THEN FALSE ELSE led,
             buzzer |-> IF active THEN FALSE ELSE buzzer]

\* mutant: every release toggles
HandleEmergencyButtonAnyRelease(cr, lastButtonState, buttonPressTime, currentButtonState, t) ==
    [cr |-> IF ~lastButtonState /\ currentButtonState
            THEN [cr EXCEPT !.emergencyStatus = ~cr.emergencyStatus]
            ELSE cr,
     lastButtonState |-> currentButtonState,
     buttonPressTime |-> IF lastButtonState /\ ~currentButtonState THEN t
                         ELSE buttonPressTime]

\* handleEmergencyButton; HIGH is TRUE (the pin is pulled up, the button
\* pulls it LOW), t = millis()
HandleEmergencyButton(cr, lastButtonState, buttonPressTime, currentButtonState, t) ==
    [cr |-> IF /\ ~lastButtonState
               /\ currentButtonState
               /\ t - buttonPressTime > 1000
            THEN [cr EXCEPT !.emergencyStatus = ~cr.emergencyStatus]
            ELSE cr,
     lastButtonState |-> currentButtonState,
     buttonPressTime |-> IF lastButtonState /\ ~currentButtonState THEN t
                         ELSE buttonPressTime]

\* the legacy transmission timer: one period, whatever the snapshot holds
LegacyTransmissionTimerExpired(cr, t, last) == t - last >= TRANSMISSION_INTERVAL

LegacyInitialReadings ==
    [heartRate |-> 0, spO2 |-> [n |-> 0, d |-> 1], bodyTemperature |-> 0,
     ambientTemperature |-> 0, coLevel |-> 0,
     accelX |-> 0, accelY |-> 0, accelZ |-> 0,
     gyroX |-> 0, gyroY |-> 0, gyroZ |-> 0, batteryLow |-> TRUE,
     emergencyStatus |-> FALSE, fallDetected |-> FALSE, heatStress |-> FALSE,
     coWarning |-> FALSE, timestamp |-> 0]

\* the legacy globals and statics when setup() has returned, and what the
\* latest iteration did: sampled, sent, txElapsed, released, held,
\* emergencyBefore
LegacyStart ==
    [now |-> LegacySetupTime, cr |-> LegacyInitialReadings,
     hs |-> [lastIrValue |-> 0, lastBeatTime |-> 0, beatCount |-> 0,
             heartRateSum |-> 0],
     ir |-> 0, red |-> 0, lastSensorRead |-> 0, lastDataTransmission |-> 0,
     alertActive |-> FALSE, alertStartTime |-> 0, led |-> FALSE,
     buzzer |-> FALSE, lastButtonState |-> TRUE, buttonPressTime |-> 0,
     sampled |-> FALSE, sent |-> FALSE, txElapsed |-> 0, released |-> FALSE,
     held |-> 0, emergencyBefore |-> FALSE, ran |-> FALSE]

\* what the legacy sensors deliver in a tick: a frame and the battery pin
LegacyInputs ==
    { <<Nominal, 3000>>,
      <<[Nominal EXCEPT !.motion = Fall], 3000>>,
      <<[Nominal EXCEPT !.body = <<15708>>, !.adc = 1000], 1500>> }

-----------------------------------------------------------------------------
(* setup() has returned.                                                   *)

\* mutant: the snapshot starts with 1 g on the z axis
InitialReadingsAtRest ==
    [heartRate |-> 0, spO2 |-> [n |-> 0, d |-> 1], bodyTemperature |-> 0,
     ambientTemperature |-> 0, coLevel |-> 0, smokeDetected |-> FALSE,
     accelX |-> 0, accelY |-> 0, accelZ |-> 16384,
     gyroX |-> 0, gyroY |-> 0, gyroZ |-> 0,
     fallDetected |-> FALSE, impactDetected |-> FALSE,
     motionlessAlert |-> FALSE, lastMotionTime |-> 0,
     heatStress |-> FALSE, coWarning |-> FALSE, criticalVitals |-> FALSE,
     emergencyStatus |-> FALSE, systemError |-> FALSE, sensorError |-> FALSE,
     timestamp |-> 0, sessionTime |-> 0, dataPacketCount |-> 0]

InitialReadings ==
    [heartRate |-> 0, spO2 |-> [n |-> 0, d |-> 1], bodyTemperature |-> 0,
     ambientTemperature |-> 0, coLevel |-> 0, smokeDetected |-> FALSE,
     accelX |-> 0, accelY |-> 0, accelZ |-> 0,
     gyroX |-> 0, gyroY |-> 0, gyroZ |-> 0,
     fallDetected |-> FALSE, impactDetected |-> FALSE,
     motionlessAlert |-> FALSE, lastMotionTime |-> 0,
     heatStress |-> FALSE, coWarning |-> FALSE, criticalVitals |-> FALSE,
     emergencyStatus |-> FALSE, systemError |-> FALSE, sensorError |-> FALSE,
     timestamp |-> 0, sessionTime |-> 0, dataPacketCount |-> 0]

Init ==
    \E d \in SetupDurations :
        /\ systemStartTime = 0
        /\ currentReadings = [InitialReadings EXCEPT !.lastMotionTime = d]
        /\ windowStart = d
        /\ lastHealthCheck = d + STARTUP_LED_TIME
        /\ setupEnd = d + STARTUP_LED_TIME
        /\ clock = d + STARTUP_LED_TIME
        /\ currentTime = d + STARTUP_LED_TIME
        /\ pc = "sensors"
        /\ lastSensorRead = 0
        /\ lastDataTransmission = 0
        /\ alertActive = FALSE
        /\ alertStartTime = 0
        /\ irValue = 0
        /\ redValue = 0
        /\ heartStatics = [lastIrValue |-> 0, lastBeatTime |-> 0,
                           beatCount |-> 0, heartRateSum |-> 0]
        /\ lastEmergencyTransmission = 0
        /\ ledPin = FALSE
        /\ posted = <<>>
        /\ sampled = FALSE
        /\ emergencyBefore = FALSE
        /\ txLoop = "none"
        /\ txProtocol = FALSE
        /\ lastEmergencyAttempt = -1
        /\ txElapsed = -1
        /\ lastFrame = NoFrame
        /\ beatTrace = NoBeats
        /\ flagsBefore = [coWarning |-> FALSE, alertActive |-> FALSE]
        /\ alertCall = "none"
        /\ outcomes = [calls |-> <<>>, everSent |-> FALSE]
        /\ observed = [before |-> InitialReadings, ticks |-> 0,
                       probes |-> {}, healthRan |-> FALSE,
                       sensorErrorBefore |-> FALSE, motionRead |-> FALSE,
                       systemErrorBefore |-> FALSE, lowHeap |-> FALSE,
                       wifi |-> TRUE,
                       ledWriter |-> "none"]
        /\ wrap = WrapStart
        /\ legacy = LegacyStart
        /\ collector = [request |-> NoRequest, code |-> 0, rows |-> <<>>,
                        rowsBefore |-> <<>>, inserted |-> FALSE,
                        ended |-> "none"]
        /\ twin = [cr |-> [InitialReadings EXCEPT !.lastMotionTime = d],
                   hs |-> [lastIrValue |-> 0, lastBeatTime |-> 0,
                           beatCount |-> 0, heartRateSum |-> 0],
                   ir |-> 0, red |-> 0, lastSensorRead |-> 0,
                   lastHealthCheck |-> d + STARTUP_LED_TIME,
                   lastDataTransmission |-> 0,
                   lastEmergencyTransmission |-> 0, alertActive |-> FALSE]

-----------------------------------------------------------------------------
(* loop(), one action per statement group.                                 *)

\* mutant: the sampling period is four transmission periods
SensorIntervalElapsedLate(ct, last) == ct - last >= 4 * TRANSMISSION_INTERVAL

\* currentTime - lastSensorRead >= SENSOR_INTERVAL
SensorIntervalElapsed(ct, last) == ct - last >= SENSOR_INTERVAL

\* the first statement of loop() on the twin, t = millis()
TwinSensors(tw, frame, t, ct) ==
    IF SensorIntervalElapsed(ct, tw.lastSensorRead)
    THEN LET r == ReadAllSensors(tw.cr, tw.hs, tw.ir, tw.red, frame, t)
         IN [tw EXCEPT !.cr = [r.cr EXCEPT !.dataPacketCount =
                                               r.cr.dataPacketCount + 1],
                       !.hs = r.hs, !.ir = r.ir, !.red = r.red,
                       !.lastSensorRead = ct]
    ELSE tw

\* if (currentTime - lastSensorRead >= SENSOR_INTERVAL) { readAllSensors(); ... }
SensorStep(frames) ==
    /\ pc = "sensors"
    /\ pc' = "health"
    /\ IF SensorIntervalElapsed(currentTime, lastSensorRead)
       THEN \E frame \in frames :
              LET r == ReadAllSensors(currentReadings, heartStatics, irValue,
                                      redValue, frame, clock)
              IN /\ currentReadings' =
                        [r.cr EXCEPT !.dataPacketCount = r.cr.dataPacketCount + 1]
                 /\ heartStatics' = r.hs
                 /\ irValue' = r.ir
                 /\ redValue' = r.red
                 /\ lastSensorRead' = currentTime
                 /\ sampled' = TRUE
                 /\ windowStart' = IF Moving(r.cr) THEN clock ELSE windowStart
                 /\ lastFrame' = frame
                 /\ beatTrace' = BeatTraceAfter(beatTrace,
                                                currentReadings.heartRate,
                                                r.ir, clock)
                 /\ twin' = TwinSensors(twin, frame, clock, currentTime)
                 /\ observed' = [observed EXCEPT
                                     !.before = IF ReadFailed(frame)
                                                THEN currentReadings
                                                ELSE InitialReadings,
                                     !.ticks = @ + 1,
                                     !.motionRead =
                                         @ \/ frame.motion # NoData]
       ELSE /\ twin' = TwinSensors(twin, NoFrame, clock, currentTime)
            /\ UNCHANGED <<observed, currentReadings, heartStatics, irValue, redValue,
                           lastSensorRead, sampled, windowStart, lastFrame,
                           beatTrace>>
    /\ UNCHANGED <<collector, wrap, legacy, clock, currentTime, lastDataTransmission, systemStartTime,
                   lastHealthCheck, alertActive, alertStartTime,
                   lastEmergencyTransmission, ledPin, posted, setupEnd,
                   emergencyBefore, txLoop, txProtocol, lastEmergencyAttempt,
                   txElapsed, flagsBefore, alertCall, outcomes>>

\* mutant: sensorError is not cleared at the start of the check
PerformSystemHealthCheckSticky(cr, probes, heap, wifi, t, start) ==
    [cr EXCEPT !.sensorError = cr.sensorError \/ (FALSE \in probes),
               !.systemError = IF heap < LOW_HEAP THEN TRUE ELSE cr.systemError,
               !.sessionTime = (t - start) \div 1000]

\* mutant: a WiFi disconnection is reported as a system error
PerformSystemHealthCheckWifi(cr, probes, heap, wifi, t, start) ==
    [cr EXCEPT !.sensorError = (FALSE \in probes),
               !.systemError = IF heap < LOW_HEAP \/ ~wifi THEN TRUE
                               ELSE cr.systemError,
               !.sessionTime = (t - start) \div 1000]

\* performSystemHealthCheck on the three probe results, the free heap and
\* the WiFi status, which is printed and changes nothing
PerformSystemHealthCheck(cr, probes, heap, wifi, t, start) ==
    [cr EXCEPT !.sensorError = (FALSE \in probes),
               !.systemError = IF heap < LOW_HEAP THEN TRUE ELSE cr.systemError,
               !.sessionTime = (t - start) \div 1000]

\* the health check of loop() on the twin
TwinHealth(tw, probes, heap, t, ct, start) ==
    IF ct - tw.lastHealthCheck >= HEALTH_CHECK_INTERVAL
    THEN [tw EXCEPT !.cr = PerformSystemHealthCheck(tw.cr, probes, heap, FALSE, t,
                                                    start),
                    !.lastHealthCheck = ct]
    ELSE tw

\* if (currentTime - lastHealthCheck >= HEALTH_CHECK_INTERVAL) { ... }
HealthStep ==
    /\ pc = "health"
    /\ pc' = "emergency"
    /\ IF currentTime - lastHealthCheck >= HEALTH_CHECK_INTERVAL
       THEN /\ \E probes \in (SUBSET BOOLEAN) \ {{}}, heap \in FreeHeaps,
                   wifi \in BOOLEAN :
                 /\ currentReadings' =
                        PerformSystemHealthCheck(currentReadings, probes, heap, wifi,
                                                 clock, systemStartTime)
                 /\ twin' = TwinHealth(twin, probes, heap, clock, currentTime,
                                       systemStartTime)
                 /\ observed' = [observed EXCEPT !.before = InitialReadings,
                                                 !.probes = probes,
                                                 !.healthRan = TRUE,
                                                 !.sensorErrorBefore =
                                                     currentReadings.sensorError,
                                                 !.systemErrorBefore =
                                                     currentReadings.systemError,
                                                 !.lowHeap = heap < LOW_HEAP,
                                                 !.wifi = wifi]
            /\ lastHealthCheck' = currentTime
       ELSE /\ twin' = TwinHealth(twin, {TRUE}, 45280, clock, currentTime,
                                  systemStartTime)
            /\ observed' = [observed EXCEPT !.before = InitialReadings]
            /\ UNCHANGED <<currentReadings, lastHealthCheck>>
    /\ UNCHANGED <<collector, wrap, legacy, clock, currentTime, lastSensorRead, lastDataTransmission,
                   systemStartTime, alertActive, alertStartTime, irValue,
                   redValue, heartStatics, lastEmergencyTransmission, ledPin,
                   posted, setupEnd, sampled, emergencyBefore, txLoop,
                   txProtocol, lastEmergencyAttempt, windowStart, txElapsed,
                   lastFrame, beatTrace, flagsBefore, alertCall, outcomes>>

\* mutant: handleEmergencyProtocols has no timer of its own
EmergencyTimerExpiredNever(t, last) == FALSE

\* mutant: the emergency timer runs on the normal period
EmergencyTimerExpiredSlow(t, last) == t - last >= TRANSMISSION_INTERVAL

\* the timer of handleEmergencyProtocols, t = millis()
EmergencyTimerExpired(t, last) == t - last >= EMERGENCY_TRANSMISSION_INTERVAL

\* one more transmission outcome of this iteration
Noted(o, outcome) ==
    [calls |-> Append(o.calls, outcome),
     everSent |-> o.everSent \/ outcome = "sent"]

\* handleEmergencyProtocols() on the twin, which is never connected
TwinEmergency(tw, t) ==
    IF /\ tw.cr.emergencyStatus
       /\ EmergencyTimerExpired(t, tw.lastEmergencyTransmission)
    THEN [tw EXCEPT !.cr = AfterTransmission(tw.cr, FALSE, FALSE),
                    !.lastEmergencyTransmission = t]
    ELSE tw

\* handleEmergencyProtocols()
EmergencyStep ==
    /\ pc = "emergency"
    /\ pc' = "transmit"
    /\ IF currentReadings.emergencyStatus
       THEN /\ IF EmergencyTimerExpired(clock, lastEmergencyTransmission)
               THEN /\ \E wifi \in BOOLEAN, ok \in BOOLEAN :
                         /\ posted' = TransmitEmergencyData(posted,
                                                            currentReadings,
                                                            wifi)
                         /\ currentReadings' =
                                AfterTransmission(currentReadings, wifi, ok)
                         /\ outcomes' = Noted(outcomes, Outcome(wifi, ok))
                    /\ lastEmergencyTransmission' = clock
                    /\ txProtocol' = TRUE
                    /\ lastEmergencyAttempt' = clock
               ELSE UNCHANGED <<posted, currentReadings, outcomes,
                                lastEmergencyTransmission, txProtocol,
                                lastEmergencyAttempt>>
            /\ ledPin' = ((clock % 200) < 100)
       ELSE UNCHANGED <<posted, currentReadings, outcomes,
                        lastEmergencyTransmission, txProtocol,
                        lastEmergencyAttempt, ledPin>>
    /\ twin' = TwinEmergency(twin, clock)
    /\ observed' = IF currentReadings.emergencyStatus
                   THEN [observed EXCEPT !.ledWriter = "emergency"]
                   ELSE observed
    /\ UNCHANGED <<collector, wrap, legacy, clock, currentTime, lastSensorRead,
                   lastDataTransmission, systemStartTime, lastHealthCheck,
                   alertActive, alertStartTime, irValue, redValue,
                   heartStatics, setupEnd, sampled, emergencyBefore, txLoop,
                   windowStart, txElapsed, lastFrame, beatTrace,
                   flagsBefore, alertCall>>

\* mutant: > in place of >=
TransmissionTimerExpiredStrict(cr, t, last) == t - last > TransmissionInterval(cr)

\* if (currentTime - lastDataTransmission >= transmissionInterval) { ... }
TransmissionTimerExpired(cr, t, last) == t - last >= TransmissionInterval(cr)

\* the transmission timer of loop() on the twin, which is never connected
TwinTransmit(tw, ct) ==
    IF TransmissionTimerExpired(tw.cr, ct, tw.lastDataTransmission)
    THEN [tw EXCEPT !.cr = AfterTransmission(tw.cr, FALSE, FALSE),
                    !.lastDataTransmission = ct]
    ELSE tw

TransmitStep ==
    /\ pc = "transmit"
    /\ pc' = "alerts"
    /\ txElapsed' = currentTime - lastDataTransmission
    /\ IF TransmissionTimerExpired(currentReadings, currentTime,
                                   lastDataTransmission)
       THEN /\ \E wifi \in BOOLEAN, ok \in BOOLEAN, heap \in FreeHeaps :
                 /\ posted' = IF currentReadings.emergencyStatus
                              THEN TransmitEmergencyData(posted,
                                                         currentReadings, wifi)
                              ELSE TransmitDataToServer(posted,
                                                        currentReadings,
                                                        alertActive, clock,
                                                        wifi, heap)
                 /\ currentReadings' =
                        AfterTransmission(currentReadings, wifi, ok)
                 /\ outcomes' = Noted(outcomes, Outcome(wifi, ok))
            /\ txLoop' = IF currentReadings.emergencyStatus THEN "emergency"
                         ELSE "normal"
            /\ lastEmergencyAttempt' = IF currentReadings.emergencyStatus
                                       THEN clock ELSE lastEmergencyAttempt
            /\ lastDataTransmission' = currentTime
       ELSE UNCHANGED <<posted, currentReadings, outcomes, txLoop,
                        lastEmergencyAttempt, lastDataTransmission>>
    /\ twin' = TwinTransmit(twin, currentTime)
    /\ UNCHANGED <<collector, wrap, legacy, observed, clock, currentTime, lastSensorRead,
                   systemStartTime, lastHealthCheck, alertActive,
                   alertStartTime, irValue, redValue, heartStatics,
                   lastEmergencyTransmission, ledPin, setupEnd, sampled,
                   emergencyBefore, txProtocol, windowStart, lastFrame, beatTrace,
                   flagsBefore, alertCall>>

\* updateAlert: the flashing pattern of an active alert
UpdateAlert(t, start) == ((t - start) % 500) < 250

\* bool currentAlertStatus = fallDetected || heatStress || coWarning
CurrentAlertStatus(cr) == cr.fallDetected \/ cr.heatStress \/ cr.coWarning

\* mutant: activateAlert is called whenever the status is true
ProcessAlertsLevel(status, active) ==
    IF status THEN [active |-> TRUE, call |-> "activate"]
    ELSE IF active THEN [active |-> FALSE, call |-> "deactivate"]
    ELSE [active |-> active, call |-> "none"]

\* the two edges of processAlerts: the new alertActive and the call made
ProcessAlerts(status, active) ==
    IF status /\ ~active THEN [active |-> TRUE, call |-> "activate"]
    ELSE IF ~status /\ active THEN [active |-> FALSE, call |-> "deactivate"]
    ELSE [active |-> active, call |-> "none"]

\* processAlerts() on the twin
TwinAlerts(tw) ==
    [tw EXCEPT !.alertActive =
                   ProcessAlerts(CurrentAlertStatus(tw.cr), tw.alertActive).active]

\* processAlerts()
AlertStep ==
    /\ pc = "alerts"
    /\ pc' = "led"
    /\ LET r == ProcessAlerts(CurrentAlertStatus(currentReadings), alertActive)
       IN /\ alertActive' = r.active
          /\ alertCall' = r.call
          /\ twin' = TwinAlerts(twin)
          /\ observed' = IF r.active
                         THEN [observed EXCEPT !.ledWriter = "alert"]
                         ELSE IF r.call = "deactivate"
                         THEN [observed EXCEPT !.ledWriter = "off"]
                         ELSE observed
          /\ alertStartTime' = IF r.call = "activate" THEN clock
                               ELSE alertStartTime
          /\ ledPin' = IF r.active
                       THEN UpdateAlert(clock, IF r.call = "activate" THEN clock
                                               ELSE alertStartTime)
                       ELSE IF r.call = "deactivate" THEN FALSE ELSE ledPin
    /\ UNCHANGED <<collector, wrap, legacy, clock, currentTime, currentReadings, lastSensorRead,
                   lastDataTransmission, systemStartTime, lastHealthCheck,
                   irValue, redValue, heartStatics, lastEmergencyTransmission,
                   posted, setupEnd, sampled, emergencyBefore, txLoop,
                   txProtocol, lastEmergencyAttempt, windowStart, txElapsed,
                   lastFrame, beatTrace, flagsBefore, outcomes>>

\* updateStatusLED(currentTime)
UpdateStatusLED(led, active, t) ==
    IF ~active THEN (t % 2000) < 100 ELSE led

\* updateStatusLED, esp_task_wdt_reset, delay(100), and the next iteration's
\* currentTime = millis(); the iteration took `step` ms, within `seconds` of
\* the end of setup()
LedStep(steps, seconds) ==
    /\ pc = "led"
    /\ pc' = "sensors"
    /\ ledPin' = UpdateStatusLED(ledPin, alertActive, currentTime)
    /\ \E step \in steps :
         /\ step >= LOOP_DELAY
         /\ clock + step <= setupEnd + seconds * 1000
         /\ clock' = clock + step
         /\ currentTime' = clock + step
    /\ posted' = <<>>
    /\ sampled' = FALSE
    /\ emergencyBefore' = currentReadings.emergencyStatus
    /\ txLoop' = "none"
    /\ txProtocol' = FALSE
    /\ txElapsed' = -1
    /\ flagsBefore' = [coWarning |-> currentReadings.coWarning,
                       alertActive |-> alertActive]
    /\ alertCall' = "none"
    /\ outcomes' = [outcomes EXCEPT !.calls = <<>>]
    /\ observed' = [observed EXCEPT
                        !.ledWriter = IF ~alertActive THEN "heartbeat" ELSE @,
                        !.probes = {}, !.healthRan = FALSE,
                        !.sensorErrorBefore = FALSE,
                        !.systemErrorBefore = FALSE, !.lowHeap = FALSE,
                        !.wifi = TRUE]
    /\ UNCHANGED <<collector, wrap, legacy, twin, currentReadings, lastSensorRead, lastDataTransmission,
                   systemStartTime, lastHealthCheck, alertActive,
                   alertStartTime, irValue, redValue, heartStatics,
                   lastEmergencyTransmission, setupEnd, lastEmergencyAttempt,
                   windowStart, lastFrame, beatTrace>>

Next ==
    \/ SensorStep(Frames)
    \/ HealthStep
    \/ EmergencyStep
    \/ TransmitStep
    \/ AlertStep
    \/ LedStep(LoopSteps, MaxSeconds)

Spec == Init /\ [][Next]_vars

\* the same loop over the long horizon the motionless timer needs
NextLong ==
    \/ SensorStep(MotionFrames)
    \/ HealthStep
    \/ EmergencyStep
    \/ TransmitStep
    \/ AlertStep
    \/ LedStep(LongSteps, LongMaxSeconds)

SpecLong == Init /\ [][NextLong]_vars

\* the same loop, a few sampling ticks on raw values at the edges of every
\* conversion
NextSensors ==
    \/ SensorStep(WideFrames)
    \/ HealthStep
    \/ EmergencyStep
    \/ TransmitStep
    \/ AlertStep
    \/ LedStep(SensorsSteps, SensorsMaxSeconds)

SpecSensors == Init /\ [][NextSensors]_vars

\* readHeartRateAndSpO2 driven alone: called on one FIFO sample, then the
\* next call comes `step` ms later
BeatStep ==
    /\ \E optical \in BeatOpticals :
         LET r == ReadHeartRateAndSpO2(currentReadings, heartStatics, irValue,
                                      redValue, optical, clock)
         IN /\ currentReadings' = r.cr
            /\ heartStatics' = r.hs
            /\ irValue' = r.ir
            /\ redValue' = r.red
            /\ beatTrace' = BeatTraceAfter(beatTrace,
                                           currentReadings.heartRate, r.ir,
                                           clock)
    /\ \E step \in BeatSteps :
         /\ clock + step <= setupEnd + BeatMaxSeconds * 1000
         /\ clock' = clock + step
         /\ currentTime' = clock + step
    /\ UNCHANGED <<collector, wrap, legacy, observed, pc, lastSensorRead, lastDataTransmission, systemStartTime,
                   lastHealthCheck, alertActive, alertStartTime,
                   lastEmergencyTransmission, ledPin, posted, setupEnd,
                   sampled, emergencyBefore, txLoop, txProtocol,
                   lastEmergencyAttempt, windowStart, txElapsed, lastFrame,
                   flagsBefore, alertCall, outcomes, twin>>

NextBeats == BeatStep

\* processSensorAlerts driven alone: called at millis() = clock on a snapshot
\* holding the fed values, the next call one sampling interval later
AlertsStep ==
    /\ \E f \in Feeds :
         LET fed == [currentReadings EXCEPT
                         !.timestamp = clock,
                         !.heartRate = f.heartRate, !.spO2 = f.spO2,
                         !.bodyTemperature = f.bodyTemperature,
                         !.ambientTemperature = f.ambientTemperature,
                         !.coLevel = f.coLevel]
         IN /\ currentReadings' = ProcessSensorAlerts(fed, clock)
            /\ windowStart' = IF Moving(fed) THEN clock ELSE windowStart
    /\ emergencyBefore' = currentReadings.emergencyStatus
    /\ flagsBefore' = [coWarning |-> currentReadings.coWarning,
                       alertActive |-> alertActive]
    /\ clock + SENSOR_INTERVAL <= setupEnd + AlertsMaxSeconds * 1000
    /\ clock' = clock + SENSOR_INTERVAL
    /\ currentTime' = clock + SENSOR_INTERVAL
    /\ UNCHANGED <<collector, wrap, legacy, observed, pc, lastSensorRead, lastDataTransmission, systemStartTime,
                   lastHealthCheck, alertActive, alertStartTime, irValue,
                   redValue, heartStatics, lastEmergencyTransmission, ledPin,
                   posted, setupEnd, sampled, txLoop, txProtocol,
                   lastEmergencyAttempt, txElapsed, lastFrame, beatTrace,
                   alertCall, outcomes, twin>>

NextAlerts == AlertsStep

\* data_receiver.php serves one request
ReceiveStep ==
    /\ Len(collector.rows) < CollectorMaxRows
    /\ \E request \in CollectorRequests, dbOk \in BOOLEAN :
         LET r == DataReceiver(request, collector.rows, dbOk)
         IN collector' = [request |-> request, code |-> r.code,
                          rows |-> r.rows, rowsBefore |-> collector.rows,
                          inserted |-> r.inserted, ended |-> r.ended]
    /\ UNCHANGED <<firmwareVars, wrap, legacy>>

NextCollector == ReceiveStep

\* The sampling statement of loop() on the 32-bit counter, then the rest of
\* the iteration taking `step` ms.  since: the time since the last tick;
\* elapsed: that time as it was when the timer was compared; gap: the time
\* between the last two ticks; wrapped: the last comparison had the counter
\* past 2^32 and lastSensorRead before it.
WrapStep ==
    /\ \E step \in WrapSteps :
         /\ wrap.run + step <= WrapMaxSeconds * 1000
         /\ LET fires == SensorTimerExpired(wrap.now, wrap.lastSensorRead)
            IN wrap' = [now |-> AddU32(wrap.now, step),
                        lastSensorRead |-> IF fires THEN wrap.now
                                           ELSE wrap.lastSensorRead,
                        since |-> (IF fires THEN 0 ELSE wrap.since) + step,
                        run |-> wrap.run + step,
                        ticked |-> fires,
                        elapsed |-> wrap.since,
                        gap |-> IF fires THEN wrap.since ELSE wrap.gap,
                        wrapped |-> wrap.now[1] < wrap.lastSensorRead[1]]
    /\ UNCHANGED <<firmwareVars, collector, legacy>>

NextWrap == WrapStep

\* one iteration of the legacy loop(): sampling, transmission, processAlerts,
\* handleEmergencyButton, updateStatusLED, then delay(100) and the next
\* currentTime = millis()
LegacyLoop ==
    /\ \E input \in LegacyInputs, currentButtonState \in BOOLEAN,
          step \in LegacySteps :
         /\ legacy.now + step <= LegacySetupTime + LegacyMaxSeconds * 1000
         /\ LET t == legacy.now
                due == SensorIntervalElapsed(t, legacy.lastSensorRead)
                r == IF due
                     THEN LegacyReadAllSensors(legacy.cr, legacy.hs, legacy.ir,
                                               legacy.red, input[1], input[2], t)
                     ELSE [cr |-> legacy.cr, hs |-> legacy.hs, ir |-> legacy.ir,
                           red |-> legacy.red]
                sends == LegacyTransmissionTimerExpired(r.cr, t,
                                                        legacy.lastDataTransmission)
                a == LegacyProcessAlerts(r.cr, legacy.alertActive,
                                         legacy.alertStartTime, legacy.led,
                                         legacy.buzzer, t)
                b == HandleEmergencyButton(r.cr, legacy.lastButtonState,
                                           legacy.buttonPressTime,
                                           currentButtonState, a.t)
            IN legacy' =
                 [now |-> t + step, cr |-> b.cr, hs |-> r.hs, ir |-> r.ir,
                  red |-> r.red,
                  lastSensorRead |-> IF due THEN t ELSE legacy.lastSensorRead,
                  lastDataTransmission |-> IF sends THEN t
                                           ELSE legacy.lastDataTransmission,
                  alertActive |-> a.active, alertStartTime |-> a.start,
                  led |-> UpdateStatusLED(a.led, a.active, t),
                  buzzer |-> a.buzzer,
                  lastButtonState |-> b.lastButtonState,
                  buttonPressTime |-> b.buttonPressTime,
                  sampled |-> due, sent |-> sends,
                  txElapsed |-> t - legacy.lastDataTransmission,
                  released |-> ~legacy.lastButtonState /\ currentButtonState,
                  held |-> a.t - legacy.buttonPressTime,
                  emergencyBefore |-> legacy.cr.emergencyStatus,
                  ran |-> TRUE]
    /\ UNCHANGED <<firmwareVars, collector, wrap>>

NextLegacy == LegacyLoop

SpecLegacy == Init /\ [][NextLegacy]_vars

SpecWrap == Init /\ [][NextWrap]_vars

SpecCollector == Init /\ [][NextCollector]_vars

SpecAlerts == Init /\ [][NextAlerts]_vars

SpecBeats == Init /\ [][NextBeats]_vars

-----------------------------------------------------------------------------
(* Properties.                                                             *)

\* the iteration has passed loop()'s transmission timer
AfterTransmit == pc \in {"alerts", "led"}

\* a sampling tick has just ended
TickEnded == sampled /\ pc = "health"

\* one of the five trigger conditions of emergencyStatus holds
AnyTrigger(cr) ==
    \/ cr.criticalVitals
    \/ cr.fallDetected
    \/ cr.impactDetected
    \/ cr.motionlessAlert
    \/ cr.coLevel > 400 * 4095

\* x^2 + y^2 + z^2 > 4 * quarter, for 16-bit x, y, z
SumOfSquaresAbove(x, y, z, quarter) ==
    LET q == ((x * x) \div 4) + ((y * y) \div 4) + ((z * z) \div 4)
        rem == ((x * x) % 4) + ((y * y) % 4) + ((z * z) % 4)
        e == q - quarter
    IN e >= 1 \/ (e > -3 /\ 4 * e + rem > 0)

\* C1: whenever loop() has compared its transmission timer, it fired iff
\* currentTime - lastDataTransmission was at least 1000 ms with
\* emergencyStatus true at that moment, at least 5000 ms with it false; what
\* it called follows emergencyStatus too.
C1_TransmissionPeriod ==
    AfterTransmit =>
        /\ (txLoop # "none") <=>
               (txElapsed >= IF currentReadings.emergencyStatus
                             THEN EMERGENCY_TRANSMISSION_INTERVAL
                             ELSE TRANSMISSION_INTERVAL)
        /\ txLoop = "emergency" => currentReadings.emergencyStatus
        /\ txLoop = "normal" => ~currentReadings.emergencyStatus

\* C1 witness: emergencyStatus flipped in this iteration and the timer fired
\* on the new period, before the old one had run out
C1_Witness ==
    /\ AfterTransmit
    /\ sampled
    /\ ~emergencyBefore
    /\ currentReadings.emergencyStatus
    /\ txLoop = "emergency"
    /\ txElapsed < TRANSMISSION_INTERVAL

\* C2: at the end of every sampling tick emergencyStatus is true whenever
\* criticalVitals, fallDetected, impactDetected, motionlessAlert or
\* coLevel > 400 is true; it is false only when all five are false.
C2_EmergencyCoversTriggers ==
    TickEnded =>
        /\ AnyTrigger(currentReadings) => currentReadings.emergencyStatus
        /\ ~currentReadings.emergencyStatus => ~AnyTrigger(currentReadings)

\* C2 witness: a tick ends with a fall detected and the emergency raised by it
C2_Witness ==
    /\ TickEnded
    /\ currentReadings.fallDetected
    /\ ~currentReadings.criticalVitals
    /\ ~emergencyBefore
    /\ currentReadings.emergencyStatus

\* C3, as claimed: a sampling tick that follows one with emergencyStatus true
\* and on which all five trigger conditions are clear ends with
\* emergencyStatus false.
C3_ClearsWhenTriggersClear ==
    (TickEnded /\ emergencyBefore /\ ~AnyTrigger(currentReadings))
        => ~currentReadings.emergencyStatus

\* C4: motionlessAlert is true only if the magnitude has not been above the
\* motion threshold since the window started and at least MOTIONLESS_TIME has
\* elapsed in the window; a tick above the threshold ends with
\* motionlessAlert false and the window restarted at that tick.
C4_MotionlessOnlyAfterWindow ==
    /\ currentReadings.motionlessAlert =>
           /\ ~Moving(currentReadings)
           /\ currentReadings.timestamp - windowStart >= MOTIONLESS_TIME
    /\ (TickEnded /\ Moving(currentReadings)) =>
           /\ ~currentReadings.motionlessAlert
           /\ currentReadings.lastMotionTime = currentReadings.timestamp
           /\ windowStart = currentReadings.timestamp

\* C4 witness: the alert is raised in a window that a tick above the
\* threshold had restarted after boot
C4_Witness ==
    /\ TickEnded
    /\ currentReadings.motionlessAlert
    /\ windowStart >= setupEnd

\* C5: a sampling tick at or below the motion threshold at which more than
\* MOTIONLESS_TIME has elapsed since the last tick above it (since boot when
\* there was none) ends with motionlessAlert and emergencyStatus true.
C5_MotionlessRaisesEmergency ==
    (/\ TickEnded
     /\ ~Moving(currentReadings)
     /\ currentReadings.timestamp - windowStart > MOTIONLESS_TIME)
        => (currentReadings.motionlessAlert /\ currentReadings.emergencyStatus)

\* C5 witness: the first tick past the limit raises both flags
C5_Witness ==
    /\ TickEnded
    /\ ~emergencyBefore
    /\ currentReadings.timestamp - windowStart > MOTIONLESS_TIME
    /\ currentReadings.motionlessAlert
    /\ currentReadings.emergencyStatus

\* C6: the iteration whose sampling tick turns emergencyStatus true calls
\* transmitEmergencyData, and whenever handleEmergencyProtocols has run with
\* emergencyStatus true the last call of transmitEmergencyData is less than
\* 1000 ms old, so the next call comes at most one loop iteration after the
\* 1000 ms have passed.
C6_EmergencyAttemptsEverySecond ==
    (pc = "transmit" /\ currentReadings.emergencyStatus) =>
        /\ lastEmergencyAttempt >= 0
        /\ clock - lastEmergencyAttempt < 1000
        /\ (sampled /\ ~emergencyBefore) => txProtocol

\* C6 witness: emergencyStatus has stayed true and the handler attempts again
C6_Witness ==
    /\ pc = "transmit"
    /\ emergencyBefore
    /\ currentReadings.emergencyStatus
    /\ txProtocol

\* C7, as claimed: the iteration in which emergencyStatus changes sends a
\* record only if the transmission timer, compared with the new period, has
\* expired.
C7_NoRecordOnChange ==
    (/\ AfterTransmit
     /\ emergencyBefore # currentReadings.emergencyStatus
     /\ posted # <<>>)
        => txElapsed >= IF currentReadings.emergencyStatus THEN 1000 ELSE 5000

\* C7, amended: in the iteration in which emergencyStatus changes, loop()'s
\* transmission timer fires iff it has expired on the new period, and
\* handleEmergencyProtocols calls transmitEmergencyData on its own timer.
C7_TimerUsesNewPeriodOnChange ==
    (AfterTransmit /\ emergencyBefore # currentReadings.emergencyStatus) =>
        /\ (txLoop # "none") <=>
               (txElapsed >= IF currentReadings.emergencyStatus THEN 1000
                             ELSE 5000)
        /\ currentReadings.emergencyStatus => txProtocol

\* C7 witness: emergencyStatus changed, the handler sent a record and the
\* transmission timer, not expired on the new period, did not fire
C7_Witness ==
    /\ AfterTransmit
    /\ emergencyBefore # currentReadings.emergencyStatus
    /\ txElapsed < 1000
    /\ txLoop = "none"
    /\ Len(posted) = 1

C9_SpO2AndCORanges ==
    currentReadings.dataPacketCount >= 1 =>
        /\ currentReadings.spO2.d > 0
        /\ currentReadings.spO2.n >= 70 * currentReadings.spO2.d
        /\ currentReadings.spO2.n <= 100 * currentReadings.spO2.d
        /\ currentReadings.coLevel >= 0

\* C9 witness: a red/IR ratio above 20/9 and an ADC value below the 0.1 V
\* offset are published as 70 and 0
C9_Witness ==
    /\ TickEnded
    /\ lastFrame.optical = <<50001, 262143>>
    /\ lastFrame.adc = 0
    /\ currentReadings.spO2 = [n |-> 70, d |-> 1]
    /\ currentReadings.coLevel = 0

\* C10: after every sampling tick bodyTemperature lies in [30, 45] and
\* ambientTemperature in [-40, 85]; a converted body reading outside its
\* range is published as 37.0, a converted ambient reading outside its range
\* as 25.0, and one inside the range is published unchanged.
C10_TemperatureValidation ==
    /\ currentReadings.dataPacketCount >= 1 =>
           /\ currentReadings.bodyTemperature >= 3000
           /\ currentReadings.bodyTemperature <= 4500
           /\ currentReadings.ambientTemperature >= -4000
           /\ currentReadings.ambientTemperature <= 8500
    /\ (TickEnded /\ lastFrame.body # NoData) =>
           LET c == 2 * lastFrame.body[1] - 27315
           IN currentReadings.bodyTemperature =
                  IF c >= 3000 /\ c <= 4500 THEN c ELSE 3700
    /\ (TickEnded /\ lastFrame.ambient # NoData) =>
           LET c == 2 * lastFrame.ambient[1] - 27315
           IN currentReadings.ambientTemperature =
                  IF c >= -4000 /\ c <= 8500 THEN c ELSE 2500

\* C10 witness: a body reading of 45.01 degrees is published as 37.0
C10_Witness ==
    /\ TickEnded
    /\ lastFrame.body = <<15908>>
    /\ currentReadings.bodyTemperature = 3700

Evaluated == currentReadings.timestamp > 0

\* C12: whenever processSensorAlerts has run on a coLevel above 400 ppm,
\* coWarning and emergencyStatus are both true.
C12_CriticalCORaisesBoth ==
    (Evaluated /\ currentReadings.coLevel > 400 * 4095) =>
        (currentReadings.coWarning /\ currentReadings.emergencyStatus)

\* C12 witness: 450 ppm alone raises the warning and the emergency in one
\* call
C12_Witness ==
    /\ Evaluated
    /\ currentReadings.coLevel = 450 * 4095
    /\ ~emergencyBefore
    /\ ~currentReadings.criticalVitals
    /\ ~currentReadings.fallDetected
    /\ currentReadings.coWarning
    /\ currentReadings.emergencyStatus

\* C13: coWarning is true iff coLevel is above 50 ppm, after every call and
\* whatever it was before.
C13_COWarningFollowsLevel ==
    currentReadings.coWarning <=> (currentReadings.coLevel > 50 * 4095)

\* C13 witness: the warning was on, coLevel is now exactly 50 ppm and the
\* warning is off
C13_Witness ==
    /\ Evaluated
    /\ flagsBefore.coWarning
    /\ currentReadings.coLevel = 50 * 4095
    /\ ~currentReadings.coWarning

\* C14: after every call criticalVitals is true iff bodyTemperature > 40.5
\* or heartRate > 220 or spO2 < 85 or ambientTemperature > 80; body
\* temperature 41 with heart rate 90 gives criticalVitals and heatStress.
C14_CriticalVitalsDefinition ==
    Evaluated =>
        /\ currentReadings.criticalVitals <=>
               \/ currentReadings.bodyTemperature > 4050
               \/ currentReadings.heartRate > 220000
               \/ currentReadings.spO2.n < 85 * currentReadings.spO2.d
               \/ currentReadings.ambientTemperature > 8000
        /\ (/\ currentReadings.bodyTemperature = 4100
            /\ currentReadings.heartRate = 90000) =>
               (currentReadings.criticalVitals /\ currentReadings.heatStress)

\* C14 witness: body temperature 41, heart rate 90, both flags raised
C14_Witness ==
    /\ Evaluated
    /\ currentReadings.bodyTemperature = 4100
    /\ currentReadings.heartRate = 90000
    /\ currentReadings.criticalVitals
    /\ currentReadings.heatStress

\* C15: after every call heatStress is true iff bodyTemperature > 39.0 or
\* heartRate > 200 or ambientTemperature > 60, on the values of that call
\* alone.
C15_HeatStressDefinition ==
    Evaluated =>
        (currentReadings.heatStress <=>
            \/ currentReadings.bodyTemperature > 3900
            \/ currentReadings.heartRate > 200000
            \/ currentReadings.ambientTemperature > 6000)

\* C15 witness: body temperature exactly 39.0 after an emergency had been
\* raised, and heatStress is off
C15_Witness ==
    /\ Evaluated
    /\ emergencyBefore
    /\ currentReadings.bodyTemperature = 3900
    /\ ~currentReadings.heatStress

\* C16: when processAlerts has run, alertActive equals fallDetected or
\* heatStress or coWarning; activateAlert was called iff alertActive was
\* false and the three are not all false, deactivateAlert iff it was true and
\* all three are false, and neither when nothing changed.
C16_AlertSessionEdgeTriggered ==
    pc = "led" =>
        LET status == \/ currentReadings.fallDetected
                      \/ currentReadings.heatStress
                      \/ currentReadings.coWarning
        IN /\ alertActive = status
           /\ (alertCall = "activate") <=> (status /\ ~flagsBefore.alertActive)
           /\ (alertCall = "deactivate") <=> (~status /\ flagsBefore.alertActive)
           /\ (status = flagsBefore.alertActive) => alertCall = "none"

\* C16 witness: an alert stays active over an iteration and nothing is
\* called
C16_Witness ==
    /\ pc = "led"
    /\ flagsBefore.alertActive
    /\ alertActive
    /\ sampled
    /\ alertCall = "none"

\* C17: the device and its twin, which sees the same clock and the same
\* sensor inputs but never has WiFi, agree on lastSensorRead (so on the
\* sequence of sampling ticks), on every field of currentReadings (snapshot,
\* alert flags, packet counter) and on alertActive, whatever the device's
\* transmissions did; and once the sampling statement of an iteration is
\* passed, fewer than 1000 ms lie between currentTime and the last tick.
C17_TransportDoesNotReachSampling ==
    /\ twin.lastSensorRead = lastSensorRead
    /\ twin.cr = currentReadings
    /\ twin.alertActive = alertActive
    /\ pc # "sensors" => currentTime - lastSensorRead < 1000

\* C17 witness: the device has delivered a record, its twin none, and a
\* later sampling tick ends with the same snapshot on both
C17_Witness ==
    /\ TickEnded
    /\ outcomes.everSent
    /\ currentReadings.dataPacketCount >= 2
    /\ twin.cr = currentReadings

\* the number of calls of this iteration that reached http.POST
PostsMade == Cardinality({i \in DOMAIN outcomes.calls :
                             outcomes.calls[i] # "skipped"})

\* C18: the transmit functions leave the snapshot as it is; when loop()'s
\* timer has fired, lastDataTransmission is the iteration's currentTime
\* whatever the outcome (skipped, failed or sent), normal or emergency; a
\* transmit function is called once per timer that fired and never
\* otherwise, and each call that reaches the POST sends one document, built
\* from the snapshot as it is now.
C18_FailedRecordIsDropped ==
    /\ [](AfterTransmit =>
             /\ txLoop # "none" => lastDataTransmission = currentTime
             /\ txProtocol => lastEmergencyTransmission = clock
             /\ Len(outcomes.calls) =
                    (IF txProtocol THEN 1 ELSE 0)
                        + (IF txLoop # "none" THEN 1 ELSE 0)
             /\ Len(posted) = PostsMade
             /\ \A i \in DOMAIN posted :
                    posted[i].timestamp = currentReadings.timestamp)
    /\ [][(pc \in {"emergency", "transmit"}) => (currentReadings' = currentReadings)]_vars

\* C18 witness: loop()'s timer fired in normal mode, the POST failed, and
\* lastDataTransmission is the current iteration time all the same
C18_Witness ==
    /\ AfterTransmit
    /\ txLoop = "normal"
    /\ outcomes.calls = <<"failed">>
    /\ Len(posted) = 1
    /\ lastDataTransmission = currentTime

\* C19, as claimed: every document built by transmitEmergencyData has all
\* the field names of the document transmitDataToServer builds, and
\* emergency = true in addition.
C19_EmergencyRecordHasNormalFields ==
    \A i \in DOMAIN posted :
        "emergency" \in DOMAIN posted[i] =>
            /\ posted[i].emergency = TRUE
            /\ DOMAIN NormalDocument(currentReadings, alertActive, clock,
                                     TRUE, 0) \subseteq DOMAIN posted[i]

\* C20: a request is stored only if its body is valid JSON, has device_id
\* and api_key, and api_key is exactly the shared secret; a body that is
\* not JSON is answered 400, a missing device_id or api_key 400, a wrong
\* key 401, and in each of these cases the table is what it was, no INSERT
\* was executed and the script ended at its exit statement.
C20_CollectorRejections ==
    collector.code # 0 =>
        LET req == collector.request
            has(k) == /\ req.t = "object"
                      /\ k \in DOMAIN req.o
                      /\ req.o[k].t # "null"
            both == has("device_id") /\ has("api_key")
            keyOk == both /\ req.o.api_key = [t |-> "string",
                                              v |-> "vitalguard_api_2024"]
            rejected == /\ ~collector.inserted
                        /\ collector.rows = collector.rowsBefore
                        /\ collector.ended = "exit"
        IN /\ collector.inserted => (req.parses /\ both /\ keyOk)
           /\ collector.rows # collector.rowsBefore => collector.inserted
           /\ ~req.parses => (collector.code = 400 /\ rejected)
           /\ (req.parses /\ ~both) => (collector.code = 400 /\ rejected)
           /\ (req.parses /\ both /\ ~keyOk) =>
                  (collector.code = 401 /\ rejected)

\* C20 witness: a request with a wrong key is answered 401 and the table,
\* which holds a record, stays as it was
C20_Witness ==
    /\ collector.code = 401
    /\ Len(collector.rows) >= 1
    /\ collector.rows = collector.rowsBefore
    /\ ~collector.inserted

\* C21: the sampling timer fires in an iteration iff at least 1000 ms have
\* passed since the last sampling tick, so two consecutive ticks are never
\* less than 1000 ms apart, before, across and after the wrap-around of the
\* 32-bit millisecond counter; in the loop the tick sets lastSensorRead to
\* the iteration's start time.
C21_SamplingPeriodAcrossWrap ==
    /\ wrap.run > 0 => (wrap.ticked <=> wrap.elapsed >= 1000)
    /\ wrap.gap >= 1000
    /\ sampled => lastSensorRead = currentTime

\* C21 witness: the timer fires on a comparison in which the counter has
\* wrapped and lastSensorRead has not
C21_Witness ==
    /\ wrap.ticked
    /\ wrap.wrapped
    /\ wrap.elapsed >= 1000
    /\ wrap.lastSensorRead[1] = 0

\* the fields of the snapshot that readMotionSensors assigns
MotionFields(cr) ==
    <<cr.accelX, cr.accelY, cr.accelZ, cr.gyroX, cr.gyroY, cr.gyroZ,
      cr.fallDetected>>

\* the sensors of the latest tick whose read delivered its bytes hold the
\* conversion of these bytes
OthersUpdated ==
    /\ lastFrame.body # NoData =>
           currentReadings.bodyTemperature
             = ValidateBodyTemperature(ConvertTemperature(lastFrame.body[1]))
    /\ lastFrame.ambient # NoData =>
           currentReadings.ambientTemperature
             = ValidateAmbientTemperature(ConvertTemperature(lastFrame.ambient[1]))
    /\ lastFrame.optical # NoData =>
           currentReadings.spO2 = SpO2Of(lastFrame.optical[1], lastFrame.optical[2])
    /\ lastFrame.motion # NoData =>
           /\ currentReadings.accelX = lastFrame.motion[1]
           /\ currentReadings.gyroX = lastFrame.motion[4]
    /\ currentReadings.coLevel = ConvertCO(lastFrame.adc)
    /\ currentReadings.timestamp = clock

\* C22 as stated: after a tick in which a sensor's read failed, every field of
\* that sensor has the value it had before the tick.  Violated by the first
\* tick after boot: the zero-initialised body temperature becomes 37.0 and
\* the zero-initialised SpO2 becomes 98.
C22_FailedReadKeepsEveryField ==
    TickEnded =>
        /\ lastFrame.body = NoData =>
               currentReadings.bodyTemperature = observed.before.bodyTemperature
        /\ lastFrame.ambient = NoData =>
               currentReadings.ambientTemperature
                 = observed.before.ambientTemperature
        /\ lastFrame.optical = NoData =>
               /\ currentReadings.heartRate = observed.before.heartRate
               /\ currentReadings.spO2 = observed.before.spO2
        /\ lastFrame.motion = NoData =>
               MotionFields(currentReadings) = MotionFields(observed.before)

\* C22 amended: after a tick in which a sensor's read failed, the heart rate,
\* the ambient temperature, the acceleration, the rotation and fallDetected
\* have the value they had before the tick; the body temperature and SpO2
\* have it too once a tick has run, and on the first tick after boot they
\* go from 0 to their defaults 37.0 and 98.  The tick completes and the
\* sensors that were read hold the conversion of what was read.
C22_FailedReadKeepsLastValue ==
    TickEnded =>
        /\ lastFrame.body = NoData =>
               currentReadings.bodyTemperature
                 = IF observed.ticks = 1 THEN BODY_TEMP_DEFAULT
                   ELSE observed.before.bodyTemperature
        /\ lastFrame.ambient = NoData =>
               currentReadings.ambientTemperature
                 = observed.before.ambientTemperature
        /\ lastFrame.optical = NoData =>
               /\ currentReadings.heartRate = observed.before.heartRate
               /\ currentReadings.spO2
                    = IF observed.ticks = 1 THEN [n |-> 98, d |-> 1]
                      ELSE observed.before.spO2
        /\ lastFrame.motion = NoData =>
               MotionFields(currentReadings) = MotionFields(observed.before)
        /\ OthersUpdated

\* C22 witness: the body temperature read fails after a tick that measured
\* 41.01 degrees; the field still holds 41.01 and the other sensors hold what
\* this tick read
C22_Witness ==
    /\ TickEnded
    /\ observed.ticks > 1
    /\ lastFrame.body = NoData
    /\ lastFrame.optical # NoData
    /\ observed.before.bodyTemperature = 4101
    /\ currentReadings.bodyTemperature = 4101
    /\ currentReadings.ambientTemperature = ConvertTemperature(14908)

\* C23 as stated: after a tick in which a sensor did not answer, the fields
\* of that sensor hold the defaults: body temperature 37.0, ambient
\* temperature 25.0, SpO2 98.  Violated: a sensor absent since boot leaves
\* the ambient temperature at 0.0, and a sensor that stops answering leaves
\* the last measured values in the snapshot.
C23_AbsentSensorHoldsDefaults ==
    TickEnded =>
        /\ lastFrame.body = NoData =>
               currentReadings.bodyTemperature = BODY_TEMP_DEFAULT
        /\ lastFrame.ambient = NoData =>
               currentReadings.ambientTemperature = AMBIENT_TEMP_DEFAULT
        /\ lastFrame.optical = NoData =>
               currentReadings.spO2 = [n |-> SPO2_DEFAULT, d |-> 1]

\* C24: after a health check, sensorError is true iff one of the probes of
\* that check failed, whatever it was before; the health check runs only when
\* 30000 ms have passed since the previous one; and an iteration whose
\* sampling timer has expired (every iteration of the long run) samples
\* whether or not sensorError is set.
C24_SensorErrorFollowsProbes ==
    /\ observed.healthRan =>
           /\ currentReadings.sensorError <=> (FALSE \in observed.probes)
           /\ lastHealthCheck = currentTime
    /\ (pc \in {"emergency", "transmit", "alerts", "led"} /\ ~observed.healthRan) =>
           currentTime - lastHealthCheck < HEALTH_CHECK_INTERVAL
    /\ pc = "health" => sampled

\* C24 witness: a health check whose probes all succeed returns sensorError
\* to false after an earlier check had set it, and sampling has gone on
C24_Witness ==
    /\ observed.healthRan
    /\ observed.probes = {TRUE}
    /\ observed.sensorErrorBefore
    /\ ~currentReadings.sensorError
    /\ sampled
    /\ observed.ticks > 3

\* C25: dataPacketCount is 0 after setup, grows by one in every iteration
\* whose sampling timer has expired and is changed by no other step of the
\* loop, so it always equals the number of sampling ticks since boot.
C25_PacketCountCountsTicks ==
    /\ [](currentReadings.dataPacketCount = observed.ticks)
    /\ [][currentReadings'.dataPacketCount = currentReadings.dataPacketCount + (IF pc = "sensors" /\ currentTime - lastSensorRead >= SENSOR_INTERVAL THEN 1 ELSE 0)]_vars

\* C25 witness: three ticks counted, in an iteration that posted a record
\* and did not sample
C25_Witness ==
    /\ currentReadings.dataPacketCount = 3
    /\ observed.ticks = 3
    /\ pc = "alerts"
    /\ ~sampled
    /\ posted # <<>>

\* C26 as stated: at the end of every sampling tick sessionTime is the whole
\* number of seconds since systemStartTime, and the session_time of a record
\* sent in an iteration is at most one second behind that number.  Violated:
\* sessionTime is assigned by the health check only, so it is 0 until the
\* first health check and up to 30 s old afterwards.
C26_SessionTimePerTick ==
    /\ TickEnded =>
           currentReadings.sessionTime = (clock - systemStartTime) \div 1000
    /\ \A i \in DOMAIN posted :
           ((clock - systemStartTime) \div 1000) - posted[i].session_time <= 1

\* an iteration of the loop has ended and the LED has been written since boot
IterationEnded == pc = "sensors" /\ observed.ledWriter # "none"

\* C27 as stated: at the end of an iteration the last LED write is the slow
\* heartbeat of updateStatusLED iff alertActive and emergencyStatus are both
\* false, and otherwise it is one of the flashing patterns.  Violated: with
\* emergencyStatus true and alertActive false, updateStatusLED overwrites
\* the emergency pattern with the heartbeat.
C27_HeartbeatOnlyWhenIdle ==
    IterationEnded =>
        /\ observed.ledWriter = "heartbeat"
              <=> (~alertActive /\ ~currentReadings.emergencyStatus)
        /\ (alertActive \/ currentReadings.emergencyStatus)
              => observed.ledWriter \in {"alert", "emergency"}

\* C28: no record sent carries emergency_status = 1.  A record that has the
\* field is a normal record, built while emergencyStatus is false, and
\* carries 0; every record sent while emergencyStatus is true is an
\* emergency record and has no emergency_status field.
C28_NoRecordSaysEmergency ==
    \A i \in DOMAIN posted :
        /\ "emergency_status" \in DOMAIN posted[i] =>
               /\ posted[i].emergency_status = 0
               /\ "emergency" \notin DOMAIN posted[i]
               /\ ~currentReadings.emergencyStatus
        /\ currentReadings.emergencyStatus =>
               /\ "emergency" \in DOMAIN posted[i]
               /\ "emergency_status" \notin DOMAIN posted[i]

\* C28 witness: the device is in emergency after a fall and the record it
\* has sent says so only through its emergency field
C28_Witness ==
    /\ currentReadings.emergencyStatus
    /\ currentReadings.fallDetected
    /\ Len(posted) >= 1
    /\ "emergency" \in DOMAIN posted[1]
    /\ posted[1].fall_detected = 1
    /\ "emergency_status" \notin DOMAIN posted[1]

\* C29: while emergencyStatus is true two timers send emergency records,
\* each on its own 1000 ms period: handleEmergencyProtocols calls
\* transmitEmergencyData iff 1000 ms have passed since
\* lastEmergencyTransmission, and loop() calls it iff 1000 ms have passed
\* since lastDataTransmission; neither looks at the other, every call of
\* the iteration builds an emergency record, and one iteration may make
\* both calls.
C29_TwoEmergencyTimers ==
    (AfterTransmit /\ currentReadings.emergencyStatus) =>
        /\ txProtocol => lastEmergencyTransmission = clock
        /\ ~txProtocol =>
               clock - lastEmergencyTransmission < EMERGENCY_TRANSMISSION_INTERVAL
        /\ txLoop = "emergency" <=> txElapsed >= EMERGENCY_TRANSMISSION_INTERVAL
        /\ txLoop # "normal"
        /\ Len(outcomes.calls)
              = (IF txProtocol THEN 1 ELSE 0) + (IF txLoop = "emergency" THEN 1 ELSE 0)
        /\ \A i \in DOMAIN posted : "emergency" \in DOMAIN posted[i]

\* C29 witness: both timers fire in one iteration and two emergency records
\* are sent with no time between them
C29_Witness ==
    /\ AfterTransmit
    /\ currentReadings.emergencyStatus
    /\ txProtocol
    /\ txLoop = "emergency"
    /\ Len(posted) = 2
    /\ "emergency" \in DOMAIN posted[1]
    /\ "emergency" \in DOMAIN posted[2]

\* the ends and the middle of the range of a signed 16-bit raw value
Int16Corners == {-32768, 0, 32767}

\* C30: impactDetected is false in every reachable state: no signed 16-bit
\* accelerometer frame, the full-scale ones included, has a magnitude above
\* IMPACT_THRESHOLD (4.0 g) or even above 3.5 g, while fallDetected
\* (2.5 g) does become true.
C30_ImpactNeverDetected ==
    /\ ~currentReadings.impactDetected
    /\ ~TotalAccelExceeds(currentReadings.accelX, currentReadings.accelY,
                          currentReadings.accelZ, 35)
    /\ \A x \in Int16Corners, y \in Int16Corners, z \in Int16Corners :
           ~TotalAccelExceeds(x, y, z, IMPACT_THRESHOLD)

\* C30 witness: the frame with every axis at negative full scale is a fall
\* and an emergency and not an impact
C30_Witness ==
    /\ TickEnded
    /\ lastFrame.motion # NoData
    /\ currentReadings.accelX = -32768
    /\ currentReadings.accelY = -32768
    /\ currentReadings.accelZ = -32768
    /\ currentReadings.fallDetected
    /\ currentReadings.emergencyStatus
    /\ ~currentReadings.impactDetected

\* the values analogRead returns at the default 12-bit width
AdcRange == 0 .. 4095

\* C31: the published coLevel never exceeds 320 ppm, for every ADC value
\* 0..4095, so coLevel > CO_CRITICAL_LEVEL is false in every state and the
\* critical branch of the CO ladder is never taken; the warning and the
\* danger level are reached.
C31_COCriticalUnreachable ==
    /\ currentReadings.coLevel <= 320 * CoScale
    /\ ~COAbove(currentReadings, CO_CRITICAL_LEVEL)
    /\ observed.ticks = 0 =>
           \A adc \in AdcRange :
               /\ ConvertCO(adc) <= 320 * CoScale
               /\ ~COAbove(ReadCOSensor(currentReadings, adc), CO_CRITICAL_LEVEL)

\* C31 witness: the ADC at full scale gives 320 ppm, above the danger level:
\* coWarning is set and the CO ladder raises no emergency
C31_Witness ==
    /\ TickEnded
    /\ lastFrame.adc = 4095
    /\ currentReadings.coLevel = 320 * CoScale
    /\ COAbove(currentReadings, CO_DANGER_LEVEL)
    /\ currentReadings.coWarning
    /\ ~currentReadings.emergencyStatus

\* C32: the published heartRate is 0 or at least 40 and below 200 bpm; the
\* bpm values accumulated for it and the running sum are of intervals whose
\* bpm is at least 40 and below 200.  So heartRate never exceeds
\* HEART_RATE_MAX or HEART_RATE_CRITICAL, and heatStress and criticalVitals
\* evaluate as they would with a heart rate of 0.
C32_HeartRateBelowThresholds ==
    /\ \/ currentReadings.heartRate = 0
       \/ /\ currentReadings.heartRate >= 40000
          /\ currentReadings.heartRate < 200000
    /\ heartStatics.heartRateSum >= 40000 * heartStatics.beatCount
    /\ heartStatics.heartRateSum <= 199999 * heartStatics.beatCount
    /\ ~(currentReadings.heartRate > HEART_RATE_MAX)
    /\ ~(currentReadings.heartRate > HEART_RATE_CRITICAL)
    /\ HeatStress(currentReadings)
         <=> HeatStress([currentReadings EXCEPT !.heartRate = 0])
    /\ CriticalVitals(currentReadings)
         <=> CriticalVitals([currentReadings EXCEPT !.heartRate = 0])

\* C32 witness: four intervals of 400 ms publish 150 bpm, the fastest rate
\* the sample spacing allows, and no flag follows from it
C32_Witness ==
    /\ beatTrace.ok
    /\ Len(beatTrace.valid) = 4
    /\ currentReadings.heartRate = MeanOfFour(beatTrace.valid)
    /\ currentReadings.heartRate = 150000
    /\ ~HeatStress(currentReadings)

\* a converted reading lies in (low, high]
Within(c, low, high) == c > low /\ c <= high

\* C33: the range validation runs before the alerts are evaluated.  After a
\* tick that read both temperatures, smokeDetected is true iff the converted
\* ambient reading is in (60, 85], heatStress iff the body reading is in
\* (39, 45] or the ambient reading in (60, 85], and criticalVitals iff the
\* body reading is in (40.5, 45], the ambient reading in (80, 85] or SpO2 is
\* below 85 (the heart rate being 0); a reading above the range is published
\* as its default and raises nothing.
C33_ValidationBeforeAlerts ==
    (TickEnded /\ lastFrame.body # NoData /\ lastFrame.ambient # NoData) =>
        LET b == ConvertTemperature(lastFrame.body[1])
            a == ConvertTemperature(lastFrame.ambient[1])
        IN /\ currentReadings.heartRate = 0
           /\ currentReadings.smokeDetected <=> Within(a, 6000, 8500)
           /\ currentReadings.heatStress
                <=> (Within(b, 3900, 4500) \/ Within(a, 6000, 8500))
           /\ currentReadings.criticalVitals
                <=> \/ Within(b, 4050, 4500)
                    \/ Within(a, 8000, 8500)
                    \/ SpO2Below(currentReadings, SPO2_CRITICAL)
           /\ a > 8500 => currentReadings.ambientTemperature = 2500
           /\ b > 4500 => currentReadings.bodyTemperature = 3700

\* C33 witness: an ambient reading of 85.01 degrees is published as 25.0 and
\* raises neither smokeDetected nor heatStress nor criticalVitals
C33_Witness ==
    /\ TickEnded
    /\ lastFrame.ambient = <<17908>>
    /\ lastFrame.body # NoData
    /\ currentReadings.ambientTemperature = 2500
    /\ ~currentReadings.smokeDetected
    /\ ~currentReadings.heatStress
    /\ ~currentReadings.criticalVitals

\* C34: as long as no motion read has delivered a frame since boot, the
\* acceleration is 0 on every axis, which is not above the motion threshold,
\* and lastMotionTime is the time initializeDataStructures set; at the end
\* of a tick motionlessAlert is then true iff the tick ran more than
\* MOTIONLESS_TIME after that time, and emergencyStatus is true with it.
C34_AbsentMotionSensorRaisesEmergency ==
    (TickEnded /\ ~observed.motionRead) =>
        /\ currentReadings.accelX = 0
        /\ currentReadings.accelY = 0
        /\ currentReadings.accelZ = 0
        /\ ~Moving(currentReadings)
        /\ currentReadings.lastMotionTime = setupEnd - STARTUP_LED_TIME
        /\ currentReadings.motionlessAlert
             <=> (currentReadings.timestamp - currentReadings.lastMotionTime
                    > MOTIONLESS_TIME)
        /\ currentReadings.motionlessAlert => currentReadings.emergencyStatus

\* C34 witness: the first tick more than 300 s after boot raises the
\* emergency on a device whose motion sensor never answered
C34_Witness ==
    /\ TickEnded
    /\ ~observed.motionRead
    /\ lastFrame.motion = NoData
    /\ ~emergencyBefore
    /\ currentReadings.motionlessAlert
    /\ currentReadings.emergencyStatus
    /\ ~currentReadings.fallDetected
    /\ ~currentReadings.criticalVitals

\* SpO2 lies in [70, 100]
SpO2InRange(o) == o.n >= SPO2_FLOOR * o.d /\ o.n <= SPO2_CEILING * o.d

\* C35: no record is sent before the first sampling tick, and every record
\* sent carries a validated body temperature in [30, 45], an ambient
\* temperature in [-40, 85] and an SpO2 in [70, 100], and, where it has the
\* field, a data_packet_count of at least 1; emergencyStatus changes only in
\* the sampling step of an iteration.
C35_NoRecordBeforeFirstTick ==
    /\ [](\A i \in DOMAIN posted :
             /\ observed.ticks >= 1
             /\ posted[i].timestamp >= setupEnd
             /\ posted[i].body_temperature >= BODY_TEMP_LOW
             /\ posted[i].body_temperature <= BODY_TEMP_HIGH
             /\ posted[i].ambient_temperature >= AMBIENT_TEMP_LOW
             /\ posted[i].ambient_temperature <= AMBIENT_TEMP_HIGH
             /\ SpO2InRange(posted[i].spo2)
             /\ "data_packet_count" \in DOMAIN posted[i] =>
                    posted[i].data_packet_count >= 1)
    /\ [][currentReadings'.emergencyStatus # currentReadings.emergencyStatus => (pc = "sensors" /\ sampled')]_vars

\* C35 witness: the first iteration after a long setup samples and then
\* posts a normal record, which carries the values of that one tick
C35_Witness ==
    /\ observed.ticks = 1
    /\ setupEnd >= TRANSMISSION_INTERVAL
    /\ Len(posted) = 1
    /\ "emergency" \notin DOMAIN posted[1]
    /\ posted[1].data_packet_count = 1
    /\ posted[1].timestamp = setupEnd
    /\ posted[1].body_temperature = BODY_TEMP_DEFAULT

\* the statement group of loop() that follows the one at p
PcAfter(p) ==
    CASE p = "sensors" -> "health"
      [] p = "health" -> "emergency"
      [] p = "emergency" -> "transmit"
      [] p = "transmit" -> "alerts"
      [] p = "alerts" -> "led"
      [] p = "led" -> "sensors"

\* C36: an iteration runs sampling, health check, emergency protocol,
\* transmission and processAlerts in this order; records are sent only by the
\* emergency protocol and the transmission, alertActive changes only in
\* processAlerts.  A normal record therefore carries the flags of the latest
\* tick and the alert_active left by the previous iteration, and only after
\* processAlerts does alertActive equal fallDetected or heatStress or
\* coWarning.
C36_RecordCarriesPreviousAlertActive ==
    /\ [](\A i \in DOMAIN posted :
             "alert_active" \in DOMAIN posted[i] =>
                 /\ posted[i].alert_active = Bit(flagsBefore.alertActive)
                 /\ posted[i].fall_detected = Bit(currentReadings.fallDetected)
                 /\ posted[i].heat_stress = Bit(currentReadings.heatStress)
                 /\ posted[i].co_warning = Bit(currentReadings.coWarning))
    /\ [](pc = "led" => (alertActive <=> CurrentAlertStatus(currentReadings)))
    /\ [][pc' = PcAfter(pc) /\ (alertActive' # alertActive => pc = "alerts") /\ (Len(posted') > Len(posted) => pc \in {"emergency", "transmit"}) /\ (sampled' # sampled => pc \in {"sensors", "led"})]_vars

\* C36 witness: the tick of this iteration raised heatStress and coWarning
\* and the normal record sent before processAlerts says alert_active = 0
C36_Witness ==
    /\ pc = "alerts"
    /\ sampled
    /\ ~alertActive
    /\ Len(posted) = 1
    /\ "alert_active" \in DOMAIN posted[1]
    /\ posted[1].heat_stress = 1
    /\ posted[1].co_warning = 1
    /\ posted[1].alert_active = 0

\* C37: systemError is false after setup and latches: a health check leaves
\* it true if it was true, sets it when the free heap is below 10000 bytes
\* and looks at nothing else; no other step changes it.  sensorError is
\* worked out anew from the probes of each check.  The WiFi status seen by
\* the check changes neither flag.
C37_SystemErrorLatches ==
    /\ [](observed.healthRan =>
             /\ currentReadings.systemError
                  <=> (observed.systemErrorBefore \/ observed.lowHeap)
             /\ currentReadings.sensorError <=> (FALSE \in observed.probes))
    /\ [](observed.ticks = 0 => ~currentReadings.systemError /\ ~currentReadings.sensorError)
    /\ [][(currentReadings.systemError => currentReadings'.systemError) /\ (currentReadings'.systemError # currentReadings.systemError => pc = "health") /\ (currentReadings'.sensorError # currentReadings.sensorError => pc = "health")]_vars

\* C37 witness: a health check with enough free heap, all probes answering
\* and WiFi disconnected leaves systemError set by an earlier check and
\* clears sensorError
C37_Witness ==
    /\ observed.healthRan
    /\ ~observed.wifi
    /\ ~observed.lowHeap
    /\ observed.probes = {TRUE}
    /\ observed.systemErrorBefore
    /\ observed.sensorErrorBefore
    /\ currentReadings.systemError
    /\ ~currentReadings.sensorError

\* C38: in the legacy firmware an iteration changes emergencyStatus iff its
\* button read is a release and more than 1000 ms lie between the read that
\* saw the press and this one, and then it inverts it; no sampling tick,
\* whatever it reads, sets or clears it.  A transmission is made iff 5000 ms
\* have passed since the previous one, with emergencyStatus true or false.
C38_LegacyEmergencyIsTheButton ==
    legacy.ran =>
        /\ (legacy.cr.emergencyStatus # legacy.emergencyBefore)
              <=> (legacy.released /\ legacy.held > 1000)
        /\ legacy.sent <=> legacy.txElapsed >= TRANSMISSION_INTERVAL
        /\ ~legacy.sent =>
               legacy.now - legacy.lastDataTransmission
                 < TRANSMISSION_INTERVAL + LOOP_DELAY + 400

\* C38 witness: a release after a press of 1100 ms sets emergencyStatus in
\* an iteration whose tick saw a fall, and a release after exactly 1000 ms
\* had left it alone before
C38_Witness ==
    /\ legacy.released
    /\ legacy.held = 1100
    /\ ~legacy.emergencyBefore
    /\ legacy.cr.emergencyStatus
    /\ legacy.sampled
    /\ legacy.cr.fallDetected

\* C38 second case: the second transmission, made 5000 ms after the first,
\* while emergencyStatus is true
C38_FixedPeriodInEmergency ==
    /\ legacy.sent
    /\ legacy.emergencyBefore
    /\ legacy.cr.emergencyStatus
    /\ legacy.txElapsed >= TRANSMISSION_INTERVAL
    /\ legacy.lastDataTransmission > 2 * TRANSMISSION_INTERVAL

=============================================================================
